---- MODULE Spec2Model ----
(***************************************************************************)
(* State-machine model of ProcessingHelper (src/unnamed/part_001): the     *)
(* extraction-and-synthesis pipeline, its two AbortController slots, the   *)
(* config-updated listener and cancelOngoingRequests.                      *)
(*                                                                         *)
(* Execution is single-threaded and cooperative: one action of the model   *)
(* is one run of JavaScript between two suspension points (an await that   *)
(* really yields to the event loop: image preview I/O, getLanguage's       *)
(* window round trip, a provider network call).  The main window is taken  *)
(* to exist for the whole session (window lifecycle is outside the         *)
(* pipeline), so every webContents.send reaches the event sink.            *)
(***************************************************************************)
EXTENDS Naturals, Sequences, FiniteSets, TLC

VARIABLES
    view,                                   \* deps.getView(): "queue" | "solutions"
    problemInfo,                            \* deps.getProblemInfo()
    hasDebugged,                            \* deps.setHasDebugged
    screenshotQueue,                        \* screenshotHelper.getScreenshotQueue()
    extraScreenshotQueue,                   \* screenshotHelper.getExtraScreenshotQueue()
    config,                                 \* configHelper.loadConfig()
    previousConfig,                         \* this._previousConfig
    openaiClient,                           \* this.openaiClient
    geminiApiKey,                           \* this.geminiApiKey
    anthropicClient,                        \* this.anthropicClient
    currentProcessingAbortController,       \* primary slot
    currentExtraProcessingAbortController,  \* debug slot
    aborted,                                \* AbortControllers whose abort() was called
    runs,                                   \* one record per processScreenshots call that issued a token
    nextRun,                                \* next run (token) identity
    configChanges,                          \* number of config-updated notifications so far
    resetPending,                           \* history: cancelOngoingRequests ran and no primary run has succeeded since
    lastOp,                                 \* the step just taken: [name, run, error]
    effects,                                \* events sent and collaborator calls made by that step
    responseText,                           \* text of a provider response handed to a parser
    parseResult,                            \* what the parser made of it
    parsedJSON,                             \* a value JSON.parse returned, handed to a normalizer
    questionSet,                            \* problemInfo.questions as the normalizer is given it
    textInputs,                             \* TextInput: the component's state textInputs
    noteStore,                              \* the text-note store of the main process
    noteCount,                              \* number of notes the store has issued an id for
    ipc                                     \* TextInput: the getTextInputs call and the events in flight

noteVars == <<textInputs, noteStore, noteCount, ipc>>

vars == <<view, problemInfo, hasDebugged, screenshotQueue, extraScreenshotQueue,
          config, previousConfig, openaiClient, geminiApiKey, anthropicClient,
          currentProcessingAbortController, currentExtraProcessingAbortController,
          aborted, runs, nextRun, configChanges, resetPending, lastOp, effects,
          responseText, parseResult, parsedJSON, questionSet, noteVars>>

----------------------------------------------------------------------------
(* Bounds of the model *)

MaxRuns == 2
MaxConfigChanges == 1
MaxQueue == 1
MaxLoadQueue == 3
MaxTextLen == 6
MaxSolutionLen == 5
MaxOptionTextLen == 4
MaxAnswers == 2
MaxAnswerTextLen == 4

----------------------------------------------------------------------------
(* Values *)

Runs == 1..MaxRuns
NoToken == 0
NoKey == "nokey"
Keys == {"k1"}
Providers == {"openai", "gemini", "anthropic"}
Modes == {"coding", "mcq"}
Configs == [apiProvider : Providers, apiKey : Keys \cup {NoKey}, mode : Modes]

MainPaths == <<"m1", "m2", "m3">>
ExtraPaths == <<"x1", "x2", "x3">>

NoInfo == [by |-> 0, mode |-> "none"]

\* How a provider network call can end.  "cancelled" is axios rejecting
\* because the AbortSignal it was given is aborted.
NetOutcomes == {"ok", "unparsable", "http401", "http413", "http429", "neterr"}

Range(s) == {s[i] : i \in 1..Len(s)}

\* history kept with a run in flight: the orchestrator state its
\* processScreenshots call found
NoBefore == [view |-> "none", problemInfo |-> NoInfo, hasDebugged |-> FALSE,
             screenshotQueue |-> <<>>, extraScreenshotQueue |-> <<>>]

Before == [view |-> view, problemInfo |-> problemInfo, hasDebugged |-> hasDebugged,
           screenshotQueue |-> screenshotQueue, extraScreenshotQueue |-> extraScreenshotQueue]

IdleRun == [pc |-> "idle", kind |-> "none", displaced |-> NoToken, before |-> NoBefore, paths |-> <<>>,
            onDisk |-> {}, readable |-> {},
            images |-> <<>>, provider |-> "none", mode |-> "none",
            synthProvider |-> "none", synthKind |-> "none", hadInfo |-> FALSE,
            result |-> "none", cancelledAt |-> "none"]

\* A settled run keeps its kind, its result and displaced (the token its own
\* token replaced in the slot).  cancelledAt is history kept while the run is
\* in flight: where the run stood when cancelOngoingRequests aborted its token.
DoneRun(run, result) == [IdleRun EXCEPT !.pc = "done", !.kind = run.kind,
                                        !.displaced = run.displaced, !.result = result]

----------------------------------------------------------------------------
(* Result messages, verbatim from the source *)

MsgOpenAIInvalid == "OpenAI API key not configured or invalid. Please check your settings."
MsgOpenAINotConfigured == "OpenAI API key not configured. Please check your settings."
MsgGeminiNotConfigured == "Gemini API key not configured. Please check your settings."
MsgAnthropicNotConfigured == "Anthropic API key not configured. Please check your settings."
MsgParseFailed == "Failed to parse problem information. Please try again or use clearer screenshots."
MsgGeminiFailed == "Failed to process with Gemini API. Please check your API key or try again later."
MsgGeminiSolutionFailed == "Failed to generate solution with Gemini API. Please check your API key or try again later."
MsgGeminiDebugFailed == "Failed to process debug request with Gemini API. Please check your API key or try again later."
MsgAnthropicFailed == "Failed to process with Anthropic API. Please check your API key or try again later."
MsgAnthropicSolutionFailed == "Failed to generate solution with Anthropic API. Please check your API key or try again later."
MsgAnthropicDebugFailed == "Failed to process debug request with Anthropic API. Please check your API key or try again later."
MsgClaudeRateLimit == "Claude API rate limit exceeded. Please wait a few minutes before trying again."
MsgClaudeTooMuch == "Your screenshots contain too much information for Claude to process. Switch to OpenAI or Gemini in settings which can handle larger inputs."
MsgCanceled == "Processing was canceled by the user."
MsgNoProblemInfo == "No problem info available"
MsgLoadFailed == "Failed to load screenshot data"
MsgLoadFailedDebug == "Failed to load screenshot data for debugging"
\* error.message of an error thrown by a provider SDK: text the source does not fix
MsgRaw == "<error.message of the provider SDK>"
MsgRawNamingProvider == "<error.message of the provider SDK, containing OpenAI>"
RawMessages == {MsgRaw, MsgRawNamingProvider}

\* result.error?.includes("API Key") || includes("OpenAI") || includes("Gemini")
IncludesKeyWords(err) ==
    err \in {MsgOpenAIInvalid, MsgOpenAINotConfigured, MsgGeminiNotConfigured,
             MsgGeminiFailed, MsgGeminiSolutionFailed, MsgGeminiDebugFailed,
             MsgClaudeTooMuch, MsgRawNamingProvider}

----------------------------------------------------------------------------
(* initializeAIClient: all three handles are reset, then the handle of the  *)
(* configured provider is built when the configuration holds a key.         *)

initializeAIClientKeepsOpenAI(cfg) ==
    [openai    |-> cfg.apiKey,
     gemini    |-> IF cfg.apiProvider = "gemini" THEN cfg.apiKey ELSE NoKey,
     anthropic |-> IF cfg.apiProvider = "anthropic" THEN cfg.apiKey ELSE NoKey]

\* lines 91-160: the handle is the key it was built with, NoKey when it is null
initializeAIClient(cfg) ==
    [openai    |-> IF cfg.apiProvider = "openai" THEN cfg.apiKey ELSE NoKey,
     gemini    |-> IF cfg.apiProvider = "gemini" THEN cfg.apiKey ELSE NoKey,
     anthropic |-> IF cfg.apiProvider = "anthropic" THEN cfg.apiKey ELSE NoKey]

\* The handle processScreenshots and the helpers test for provider p
ClientOf(p, oc, gk, ac) ==
    CASE p = "openai" -> oc
      [] p = "gemini" -> gk
      [] p = "anthropic" -> ac

NoResult == [stage |-> "none", ok |-> FALSE, strategy |-> "none", value |-> <<>>, error |-> "none"]

\* new ProcessingHelper(deps)
InitPipeline ==
    /\ view = "queue"
    /\ problemInfo = NoInfo
    /\ hasDebugged = FALSE
    /\ screenshotQueue = <<>>
    /\ extraScreenshotQueue = <<>>
    /\ config \in Configs
    /\ previousConfig = config
    /\ openaiClient = initializeAIClient(config).openai
    /\ geminiApiKey = initializeAIClient(config).gemini
    /\ anthropicClient = initializeAIClient(config).anthropic
    /\ currentProcessingAbortController = NoToken
    /\ currentExtraProcessingAbortController = NoToken
    /\ aborted = {}
    /\ runs = [r \in Runs |-> IdleRun]
    /\ nextRun = 1
    /\ configChanges = 0
    /\ resetPending = FALSE
    /\ lastOp = [name |-> "constructor", run |-> 0, error |-> "none"]
    /\ effects = <<>>

\* an absent field or argument (JavaScript undefined)
Undefined == "undefined"

\* no getTextInputs call made, nothing in flight
NoCall == [request |-> "none", reply |-> <<>>, events |-> <<>>, inOrder |-> TRUE]

\* the TextInput component is not mounted and the store holds no note
NoTextInput ==
    /\ textInputs = <<>>
    /\ noteStore = <<>>
    /\ noteCount = 0
    /\ ipc = NoCall

Init ==
    /\ InitPipeline
    /\ NoTextInput
    /\ responseText = <<>>
    /\ parseResult = NoResult
    /\ parsedJSON = Undefined
    /\ questionSet = Undefined

----------------------------------------------------------------------------
(* Collaborators outside the pipeline *)

\* ScreenshotHelper: a captured screenshot joins the queue of the current view
TakeScreenshotUpTo(max) ==
    /\ UNCHANGED <<responseText, parseResult, parsedJSON, questionSet, noteVars>>
    /\ IF view = "queue"
         THEN /\ Len(screenshotQueue) < max
              /\ screenshotQueue' = Append(screenshotQueue, MainPaths[Len(screenshotQueue) + 1])
              /\ UNCHANGED extraScreenshotQueue
         ELSE /\ Len(extraScreenshotQueue) < max
              /\ extraScreenshotQueue' = Append(extraScreenshotQueue, ExtraPaths[Len(extraScreenshotQueue) + 1])
              /\ UNCHANGED screenshotQueue
    /\ lastOp' = [name |-> "takeScreenshot", run |-> 0, error |-> "none"]
    /\ effects' = <<>>
    /\ UNCHANGED <<view, problemInfo, hasDebugged, config, previousConfig, openaiClient,
                   geminiApiKey, anthropicClient, currentProcessingAbortController,
                   currentExtraProcessingAbortController, aborted, runs, nextRun, configChanges, resetPending>>

TakeScreenshot == TakeScreenshotUpTo(MaxQueue)

----------------------------------------------------------------------------
(* The config-updated listener registered by the constructor.  The config  *)
(* store saves newConfig and fires the notification.                        *)

ModeChangedOrAnyField(previous, newConfig) == previous # newConfig

\* line 75: this._previousConfig?.mode !== newConfig.mode
ModeChanged(previous, newConfig) == previous.mode # newConfig.mode

ConfigUpdated(newConfig) ==
    /\ UNCHANGED <<responseText, parseResult, parsedJSON, questionSet, noteVars>>
    /\ configChanges < MaxConfigChanges
    /\ newConfig # config
    /\ configChanges' = configChanges + 1
    /\ config' = newConfig
    /\ IF ModeChanged(previousConfig, newConfig)
         THEN /\ problemInfo' = NoInfo
              /\ extraScreenshotQueue' = <<>>
              /\ view' = IF view = "solutions" THEN "queue" ELSE view
              /\ effects' = <<"call:setProblemInfo:null", "call:clearExtraScreenshotQueue">>
                              \o (IF view = "solutions" THEN <<"call:setView:queue">> ELSE <<>>)
         ELSE /\ UNCHANGED <<problemInfo, extraScreenshotQueue, view>>
              /\ effects' = <<>>
    /\ previousConfig' = newConfig
    /\ openaiClient' = initializeAIClient(newConfig).openai
    /\ geminiApiKey' = initializeAIClient(newConfig).gemini
    /\ anthropicClient' = initializeAIClient(newConfig).anthropic
    /\ lastOp' = [name |-> "config-updated", run |-> 0, error |-> "none"]
    /\ UNCHANGED <<hasDebugged, screenshotQueue, currentProcessingAbortController,
                   currentExtraProcessingAbortController, aborted, runs, nextRun, resetPending>>

----------------------------------------------------------------------------
(* cancelOngoingRequests *)

SlotTokens(p, e) == {p, e} \ {NoToken}

\* lines 1854-1866: wasCancelled is set when either slot held a controller
WasCancelled(p, e) == p # NoToken \/ e # NoToken

ResetNotificationAlways(wasCancelled) == <<"NO_SCREENSHOTS">>

\* lines 1872-1875: NO_SCREENSHOTS is sent only when something was cancelled
ResetNotification(wasCancelled) == IF wasCancelled THEN <<"NO_SCREENSHOTS">> ELSE <<>>

cancelOngoingRequests ==
    /\ UNCHANGED <<responseText, parseResult, parsedJSON, questionSet, noteVars>>
    /\ aborted' = aborted \cup SlotTokens(currentProcessingAbortController,
                                          currentExtraProcessingAbortController)
    /\ currentProcessingAbortController' = NoToken
    /\ currentExtraProcessingAbortController' = NoToken
    /\ hasDebugged' = FALSE
    /\ problemInfo' = NoInfo
    /\ effects' = <<"call:setHasDebugged:false", "call:setProblemInfo:null">>
                    \o ResetNotification(WasCancelled(currentProcessingAbortController,
                                                      currentExtraProcessingAbortController))
    /\ runs' = [r \in Runs |->
                   IF r \in SlotTokens(currentProcessingAbortController,
                                       currentExtraProcessingAbortController) /\ r \notin aborted
                     THEN [runs[r] EXCEPT !.cancelledAt = runs[r].pc]
                     ELSE runs[r]]
    /\ resetPending' = TRUE
    /\ lastOp' = [name |-> "cancelOngoingRequests", run |-> 0, error |-> "none"]
    /\ UNCHANGED <<view, screenshotQueue, extraScreenshotQueue, config, previousConfig,
                   openaiClient, geminiApiKey, anthropicClient, nextRun, configChanges>>

----------------------------------------------------------------------------
(* processScreenshots: from the call to its first suspension or return      *)

Clients == [openai |-> openaiClient, gemini |-> geminiApiKey, anthropic |-> anthropicClient]

Has(c, p) == ClientOf(p, c.openai, c.gemini, c.anthropic) # NoKey

\* lines 236-270: the configured provider's handle is rebuilt once when missing
ClientsAfterCheck == IF Has(Clients, config.apiProvider) THEN Clients ELSE initializeAIClient(config)

SetClients(c) ==
    /\ openaiClient' = c.openai
    /\ geminiApiKey' = c.gemini
    /\ anthropicClient' = c.anthropic

Existing(q, onDisk) == LET Test(p) == p \in onDisk IN SelectSeq(q, Test)

\* lines 300-313 (408-425): Promise.all over the paths in order; a path that
\* cannot be read yields null in its place
ReadAll(paths, readable) ==
    [i \in 1..Len(paths) |-> IF paths[i] \in readable THEN paths[i] ELSE "null"]

KeepAll(screenshots) == screenshots

\* lines 316 and 428: screenshots.filter(Boolean)
FilterBoolean(screenshots) == LET NotNull(x) == x # "null" IN SelectSeq(screenshots, NotNull)

QueueAlwaysUsable(existing) == TRUE

\* lines 279-293 (381-391 for the debug queue): the call goes on only when
\* the queue holds at least one file that exists
QueueUsable(existing) == existing # <<>>

\* the token a new run receives: new AbortController()
NewToken == nextRun

\* lines 297 and 397: the slot is overwritten with the new controller
IssueToken(slot, token) == token

processScreenshotsNoClient ==
    /\ UNCHANGED <<responseText, parseResult, parsedJSON, questionSet, noteVars>>
    /\ ~Has(ClientsAfterCheck, config.apiProvider)
    /\ SetClients(ClientsAfterCheck)
    /\ lastOp' = [name |-> "processScreenshots:no-client", run |-> 0, error |-> "none"]
    /\ effects' = <<"API_KEY_INVALID">>
    /\ UNCHANGED <<view, problemInfo, hasDebugged, screenshotQueue, extraScreenshotQueue,
                   config, previousConfig, currentProcessingAbortController,
                   currentExtraProcessingAbortController, aborted, runs, nextRun, configChanges, resetPending>>

\* the queue of the current view is empty, or none of its files exists
processScreenshotsNoScreenshots ==
    /\ UNCHANGED <<responseText, parseResult, parsedJSON, questionSet, noteVars>>
    /\ Has(ClientsAfterCheck, config.apiProvider)
    /\ SetClients(ClientsAfterCheck)
    /\ \E onDisk \in SUBSET Range(IF view = "queue" THEN screenshotQueue ELSE extraScreenshotQueue) :
          ~QueueUsable(Existing(IF view = "queue" THEN screenshotQueue ELSE extraScreenshotQueue, onDisk))
    /\ lastOp' = [name |-> "processScreenshots:no-screenshots", run |-> 0, error |-> "none"]
    /\ effects' = IF view = "queue" THEN <<"INITIAL_START", "NO_SCREENSHOTS">> ELSE <<"NO_SCREENSHOTS">>
    /\ UNCHANGED <<view, problemInfo, hasDebugged, screenshotQueue, extraScreenshotQueue,
                   config, previousConfig, currentProcessingAbortController,
                   currentExtraProcessingAbortController, aborted, runs, nextRun, configChanges, resetPending>>

\* view "queue": a primary run receives its token and suspends on the image
\* reads.  onDisk are the files fs.existsSync finds (line 288), readable the
\* files whose preview and bytes can be read while the run is suspended.
StartPrimary ==
    /\ UNCHANGED <<responseText, parseResult, parsedJSON, questionSet, noteVars>>
    /\ nextRun <= MaxRuns
    /\ Has(ClientsAfterCheck, config.apiProvider)
    /\ SetClients(ClientsAfterCheck)
    /\ view = "queue"
    /\ \E onDisk \in SUBSET Range(screenshotQueue), readable \in SUBSET Range(screenshotQueue) :
          /\ QueueUsable(Existing(screenshotQueue, onDisk))
          /\ runs' = [runs EXCEPT ![nextRun] =
                        [IdleRun EXCEPT !.pc = "loading", !.kind = "primary",
                                        !.displaced = currentProcessingAbortController,
                                        !.before = Before,
                                        !.onDisk = onDisk, !.readable = readable,
                                        !.paths = Existing(screenshotQueue, onDisk)]]
    /\ currentProcessingAbortController' = IssueToken(currentProcessingAbortController, NewToken)
    /\ nextRun' = nextRun + 1
    /\ lastOp' = [name |-> "processScreenshots:start-primary", run |-> nextRun, error |-> "none"]
    /\ effects' = <<"INITIAL_START">>
    /\ UNCHANGED <<view, problemInfo, hasDebugged, screenshotQueue, extraScreenshotQueue,
                   config, previousConfig, currentExtraProcessingAbortController, aborted,
                   configChanges, resetPending>>

\* view "solutions": a debug run receives its token and suspends on the image reads
StartDebug ==
    /\ UNCHANGED <<responseText, parseResult, parsedJSON, questionSet, noteVars>>
    /\ nextRun <= MaxRuns
    /\ Has(ClientsAfterCheck, config.apiProvider)
    /\ SetClients(ClientsAfterCheck)
    /\ view = "solutions"
    /\ \E onDisk \in SUBSET Range(extraScreenshotQueue),
          readable \in SUBSET (Range(screenshotQueue) \cup Range(extraScreenshotQueue)) :
          /\ QueueUsable(Existing(extraScreenshotQueue, onDisk))
          /\ runs' = [runs EXCEPT ![nextRun] =
                        [IdleRun EXCEPT !.pc = "loading", !.kind = "debug",
                                        !.displaced = currentExtraProcessingAbortController,
                                        !.before = Before,
                                        !.onDisk = onDisk, !.readable = readable,
                                        !.paths = screenshotQueue \o Existing(extraScreenshotQueue, onDisk)]]
    /\ currentExtraProcessingAbortController' = IssueToken(currentExtraProcessingAbortController, NewToken)
    /\ nextRun' = nextRun + 1
    /\ lastOp' = [name |-> "processScreenshots:start-debug", run |-> nextRun, error |-> "none"]
    /\ effects' = <<"DEBUG_START">>
    /\ UNCHANGED <<view, problemInfo, hasDebugged, screenshotQueue, extraScreenshotQueue,
                   config, previousConfig, currentProcessingAbortController, aborted,
                   configChanges, resetPending>>

----------------------------------------------------------------------------
(* Settlement of a primary run in processScreenshots (lines 324-371): the   *)
(* helper's result is mapped to events and the view, and the finally block  *)
(* empties the primary slot.                                                *)

FailureEvent(err) == IF IncludesKeyWords(err) THEN "API_KEY_INVALID" ELSE "INITIAL_SOLUTION_ERROR"

\* finally { this.currentProcessingAbortController = null }
SlotAfterSettle(slot, token) == NoToken

ViewAfterPrimaryKept(success) == "solutions"

\* lines 338 and 348: setView("queue") on a failed result, setView("solutions") otherwise
ViewAfterPrimary(success) == IF success THEN "solutions" ELSE "queue"

PrimarySettle(op, r, pre, success, err, info, extra, c) ==
    /\ effects' = pre \o (IF success THEN <<"SOLUTION_SUCCESS", "call:setView:solutions">>
                                     ELSE <<FailureEvent(err), "call:setView:queue">>)
    /\ view' = ViewAfterPrimary(success)
    /\ currentProcessingAbortController' = SlotAfterSettle(currentProcessingAbortController, r)
    /\ problemInfo' = info
    /\ extraScreenshotQueue' = extra
    /\ SetClients(c)
    /\ runs' = [runs EXCEPT ![r] = DoneRun(@, IF success THEN "success" ELSE "failure")]
    /\ resetPending' = IF success THEN FALSE ELSE resetPending
    /\ lastOp' = [name |-> op, run |-> r, error |-> IF success THEN "none" ELSE err]
    /\ UNCHANGED <<hasDebugged, screenshotQueue, config, previousConfig,
                   currentExtraProcessingAbortController, aborted, nextRun, configChanges>>

\* catch (error) of processScreenshots, lines 349-368: the error is sent, then its message
PrimaryCatch(op, r, pre, err) ==
    /\ effects' = pre \o <<"INITIAL_SOLUTION_ERROR", "INITIAL_SOLUTION_ERROR", "call:setView:queue">>
    /\ view' = "queue"
    /\ currentProcessingAbortController' = SlotAfterSettle(currentProcessingAbortController, r)
    /\ runs' = [runs EXCEPT ![r] = DoneRun(@, "failure")]
    /\ lastOp' = [name |-> op, run |-> r, error |-> err]
    /\ UNCHANGED <<problemInfo, hasDebugged, screenshotQueue, extraScreenshotQueue, config,
                   previousConfig, openaiClient, geminiApiKey, anthropicClient,
                   currentExtraProcessingAbortController, aborted, nextRun, configChanges, resetPending>>

\* The image reads of a primary run complete (lines 300-322); with at least
\* one image processScreenshotsHelper starts: it loads the config and awaits
\* getLanguage (lines 488-491).
PrimaryLoaded(r) ==
    /\ UNCHANGED <<responseText, parseResult, parsedJSON, questionSet, noteVars>>
    /\ runs[r].pc = "loading" /\ runs[r].kind = "primary"
    /\ LET validScreenshots == FilterBoolean(ReadAll(runs[r].paths, runs[r].readable))
       IN IF validScreenshots = <<>>
            THEN PrimaryCatch("primary:loaded", r, <<>>, MsgLoadFailed)
            ELSE /\ runs' = [runs EXCEPT ![r] =
                               [@ EXCEPT !.pc = "language",
                                         !.images = validScreenshots,
                                         !.onDisk = {}, !.readable = {},
                                         !.provider = config.apiProvider,
                                         !.mode = config.mode]]
                 /\ lastOp' = [name |-> "primary:loaded", run |-> r, error |-> "none"]
                 /\ effects' = <<>>
                 /\ UNCHANGED <<view, problemInfo, hasDebugged, screenshotQueue,
                                extraScreenshotQueue, config, previousConfig, openaiClient,
                                geminiApiKey, anthropicClient, currentProcessingAbortController,
                                currentExtraProcessingAbortController, aborted, nextRun,
                                configChanges, resetPending>>

----------------------------------------------------------------------------
(* Provider calls.  Only the Gemini calls (axios.post) are given the run's  *)
(* AbortSignal; the OpenAI and Anthropic SDK calls are not.                 *)

SignalPassed(p) == p = "gemini"

\* axios rejects a request whose signal is aborted: before sending it, or
\* while it is in flight
RejectedByAbort(p, r) == SignalPassed(p) /\ r \in aborted

\* the ways the call of run r to provider p can end
Outcomes(p, r) == IF RejectedByAbort(p, r) THEN {"cancelled"} ELSE NetOutcomes

\* the messages an error thrown by the call can carry to result.error: only
\* an OpenAI SDK error's own message is passed on
Raw(p) == IF p = "openai" THEN RawMessages ELSE {MsgRaw}

Answered(outcome) == outcome \in {"ok", "unparsable"}

\* lines 111-115 and 138-142: the OpenAI and Anthropic clients are built with
\* maxRetries: 2 ("Retry up to 2 times"); Gemini is called through axios.post
maxRetries == 2

\* the clients that send a rejected request again by themselves
RetriesBySDK(p) == IF p \in {"openai", "anthropic"} THEN maxRetries ELSE 0

\* the responses an SDK client answers by sending the request again: a rate
\* limit and a connection error
Retried(outcome) == outcome \in {"http429", "neterr"}

\* how the failed call ended: the HTTP status of a rejection, or an answer
\* whose text no parsing strategy accepts
CallEnd(outcome) ==
    CASE outcome = "http401" -> <<"net:rejected:401">>
      [] outcome = "http413" -> <<"net:rejected:413">>
      [] outcome = "http429" -> <<"net:rejected:429">>
      [] outcome = "unparsable" -> <<"net:answered:unparsable">>
      [] OTHER -> <<>>

\* what the failed call of provider p did before its error reached the
\* catch block: the requests sent again, and how the call ended
CallHistory(p, outcome) ==
    (IF Retried(outcome) THEN [i \in 1..RetriesBySDK(p) |-> "net:retry"] ELSE <<>>)
        \o CallEnd(outcome)

NotConfigured(p) ==
    CASE p = "openai" -> MsgOpenAINotConfigured
      [] p = "gemini" -> MsgGeminiNotConfigured
      [] p = "anthropic" -> MsgAnthropicNotConfigured

\* result.error of processScreenshotsHelper when extraction does not yield a
\* parsed problemInfo.  OpenAI: unparsable text returns at line 639, an SDK
\* error reaches the outer catch (line 872), where it carries no
\* error.response and its message is returned.  Gemini: the catch at line
\* 737 takes every failure, a cancellation included.  Anthropic: the catch
\* at line 783; JSON.parse's SyntaxError message ("Unexpected token ...")
\* includes "token".
ExtractFailure(p, outcome, raw) ==
    CASE p = "openai" -> IF outcome = "unparsable" THEN MsgParseFailed ELSE raw
      [] p = "gemini" -> MsgGeminiFailed
      [] p = "anthropic" -> IF outcome = "http429" THEN MsgClaudeRateLimit
                            ELSE IF outcome \in {"http413", "unparsable"} THEN MsgClaudeTooMuch
                            ELSE MsgAnthropicFailed

\* result.error of handleMCQResponse (lines 1032-1038, 1069-1083, 1103-1108)
MCQFailure(p, outcome, raw) ==
    CASE p = "openai" -> raw
      [] p = "gemini" -> MsgGeminiFailed
      [] p = "anthropic" -> IF outcome = "http429" THEN MsgClaudeRateLimit ELSE MsgAnthropicFailed

\* result.error of generateSolutionsHelper (lines 1360-1366, 1398-1418, 1490-1512)
SolutionFailure(p, outcome, raw) ==
    CASE p = "openai" -> raw
      [] p = "gemini" -> MsgGeminiSolutionFailed
      [] p = "anthropic" -> IF outcome = "http429" THEN MsgClaudeRateLimit
                            ELSE IF outcome = "http413" THEN MsgClaudeTooMuch
                            ELSE MsgAnthropicSolutionFailed

\* result.error of processExtraScreenshotsHelper (lines 1711-1717, 1786-1806, 1847-1850)
DebugFailure(p, outcome, raw) ==
    CASE p = "openai" -> raw
      [] p = "gemini" -> MsgGeminiDebugFailed
      [] p = "anthropic" -> IF outcome = "http429" THEN MsgClaudeRateLimit
                            ELSE IF outcome = "http413" THEN MsgClaudeTooMuch
                            ELSE MsgAnthropicDebugFailed

----------------------------------------------------------------------------
(* processScreenshotsHelper *)

\* the extraction prompt: OpenAI (506, 546) and Gemini (660) choose it by
\* isMCQ; the Anthropic branch has one prompt, for a coding problem (755)
ExtractionPrompt(p, mode) == IF p = "anthropic" THEN "coding" ELSE mode

PromptEvent(kind) == IF kind = "mcq" THEN "prompt:mcq" ELSE "prompt:coding"

\* validateAndFixMCQFormat is applied to the parsed extraction in the OpenAI
\* (634-636) and Gemini (734-736) branches when isMCQ
Normalization(p, mode) ==
    IF mode = "mcq" /\ p \in {"openai", "gemini"} THEN <<"call:validateAndFixMCQFormat">> ELSE <<>>

\* getLanguage has answered: progress 20, then the extraction call of the
\* provider captured at line 488 is issued (lines 497-603, 644-706, 744-778)
ExtractIssue(r) ==
    /\ UNCHANGED <<responseText, parseResult, parsedJSON, questionSet, noteVars>>
    /\ runs[r].pc = "language" /\ runs[r].kind = "primary"
    /\ LET p == runs[r].provider
           c == IF p = "openai" /\ ~Has(Clients, p) THEN initializeAIClient(config) ELSE Clients
       IN  IF ~Has(c, p)
             THEN PrimarySettle("primary:extract-issue", r, <<"status:20">>, FALSE,
                                IF p = "openai" THEN MsgOpenAIInvalid ELSE NotConfigured(p),
                                problemInfo, extraScreenshotQueue, c)
           ELSE IF RejectedByAbort(p, r)
             THEN PrimarySettle("primary:extract-issue", r, <<"status:20">>, FALSE, ExtractFailure(p, "cancelled", MsgRaw),
                                problemInfo, extraScreenshotQueue, c)
           ELSE /\ runs' = [runs EXCEPT ![r] = [@ EXCEPT !.pc = "extract"]]
                /\ lastOp' = [name |-> "primary:extract-issue", run |-> r, error |-> "none"]
                /\ effects' = <<"status:20", PromptEvent(ExtractionPrompt(p, runs[r].mode)), "net:extract">>
                /\ SetClients(c)
                /\ UNCHANGED <<view, problemInfo, hasDebugged, screenshotQueue,
                               extraScreenshotQueue, config, previousConfig,
                               currentProcessingAbortController,
                               currentExtraProcessingAbortController, aborted, nextRun,
                               configChanges, resetPending>>

\* the provider the synthesis stage uses: handleMCQResponse (line 920) and
\* generateSolutionsHelper (line 1238) load the config again
SynthProvider(r) == config.apiProvider

\* the mode generateSolutionsHelper branches on (line 1239)
SynthMode(r) == config.mode

StoredInfoKept(info, old) == old

\* line 815: this.deps.setProblemInfo(problemInfo) replaces the stored value
StoredInfo(info, old) == info

\* The extraction call has ended.  On a parsed answer: progress 40,
\* setProblemInfo, PROBLEM_EXTRACTED (lines 806-822); then in MCQ mode
\* handleMCQResponse issues its call at once, and in coding mode
\* generateSolutionsHelper loads the config and awaits getLanguage.
ExtractReturn(r) ==
    /\ UNCHANGED <<responseText, parseResult, parsedJSON, questionSet, noteVars>>
    /\ runs[r].pc = "extract"
    /\ \E outcome \in Outcomes(runs[r].provider, r), raw \in Raw(runs[r].provider) :
         LET p    == runs[r].provider
             info == StoredInfo([by |-> r, mode |-> runs[r].mode], problemInfo)
             pre  == Normalization(p, runs[r].mode)
                        \o <<"status:40", "call:setProblemInfo", "PROBLEM_EXTRACTED">>
             p2   == SynthProvider(r)
         IN  IF outcome # "ok"
               THEN PrimarySettle("primary:extract-return", r, CallHistory(p, outcome), FALSE,
                                  ExtractFailure(p, outcome, raw),
                                  problemInfo, extraScreenshotQueue, Clients)
             ELSE IF runs[r].mode = "mcq" \/ SynthMode(r) = "mcq"
               THEN IF ~Has(Clients, p2)
                      THEN PrimarySettle("primary:extract-return", r, pre \o <<"status:60">>, FALSE, NotConfigured(p2),
                                         info, extraScreenshotQueue, Clients)
                    ELSE IF RejectedByAbort(p2, r)
                      THEN PrimarySettle("primary:extract-return", r, pre \o <<"status:60">>, FALSE,
                                         MCQFailure(p2, "cancelled", raw),
                                         info, extraScreenshotQueue, Clients)
                    ELSE /\ runs' = [runs EXCEPT ![r] =
                                       [@ EXCEPT !.pc = "synth", !.synthProvider = p2,
                                                 !.synthKind = "mcq"]]
                         /\ problemInfo' = info
                         /\ lastOp' = [name |-> "primary:extract-return", run |-> r, error |-> "none"]
                         /\ effects' = pre \o <<"status:60", "net:synth">>
                         /\ UNCHANGED <<view, hasDebugged, screenshotQueue, extraScreenshotQueue,
                                        config, previousConfig, openaiClient, geminiApiKey,
                                        anthropicClient, currentProcessingAbortController,
                                        currentExtraProcessingAbortController, aborted, nextRun,
                                        configChanges, resetPending>>
             ELSE /\ runs' = [runs EXCEPT ![r] =
                                [@ EXCEPT !.pc = "languageSynth", !.synthProvider = p2,
                                          !.synthKind = "coding"]]
                  /\ problemInfo' = info
                  /\ lastOp' = [name |-> "primary:extract-return", run |-> r, error |-> "none"]
                  /\ effects' = pre
                  /\ UNCHANGED <<view, hasDebugged, screenshotQueue, extraScreenshotQueue,
                                 config, previousConfig, openaiClient, geminiApiKey,
                                 anthropicClient, currentProcessingAbortController,
                                 currentExtraProcessingAbortController, aborted, nextRun,
                                 configChanges, resetPending>>

\* generateSolutionsHelper after getLanguage: progress 60, then the solution
\* call of the provider loaded at line 1238 (lines 1253-1351, 1367-1395)
SynthIssue(r) ==
    /\ UNCHANGED <<responseText, parseResult, parsedJSON, questionSet, noteVars>>
    /\ runs[r].pc = "languageSynth"
    /\ LET p2 == runs[r].synthProvider
       IN  IF ~Has(Clients, p2)
             THEN PrimarySettle("primary:synth-issue", r, <<"status:60">>, FALSE, NotConfigured(p2),
                                problemInfo, extraScreenshotQueue, Clients)
           ELSE IF RejectedByAbort(p2, r)
             THEN PrimarySettle("primary:synth-issue", r, <<"status:60">>, FALSE, SolutionFailure(p2, "cancelled", MsgRaw),
                                problemInfo, extraScreenshotQueue, Clients)
           ELSE /\ runs' = [runs EXCEPT ![r] = [@ EXCEPT !.pc = "synth"]]
                /\ lastOp' = [name |-> "primary:synth-issue", run |-> r, error |-> "none"]
                /\ effects' = <<"status:60", "net:synth">>
                /\ UNCHANGED <<view, problemInfo, hasDebugged, screenshotQueue,
                               extraScreenshotQueue, config, previousConfig, openaiClient,
                               geminiApiKey, anthropicClient, currentProcessingAbortController,
                               currentExtraProcessingAbortController, aborted, nextRun,
                               configChanges, resetPending>>

\* The synthesis call has ended (lines 826-868, 1086-1102, 1421-1489): any
\* answer text is turned into a result; the debug queue is cleared, progress
\* 100 and SOLUTION_SUCCESS are sent, and processScreenshots settles.
SynthReturn(r) ==
    /\ UNCHANGED <<responseText, parseResult, parsedJSON, questionSet, noteVars>>
    /\ runs[r].pc = "synth"
    /\ \E outcome \in Outcomes(runs[r].synthProvider, r), raw \in Raw(runs[r].synthProvider) :
         LET p2 == runs[r].synthProvider
         IN  IF Answered(outcome)
               THEN PrimarySettle("primary:synth-return", r, <<"call:clearExtraScreenshotQueue", "status:100", "SOLUTION_SUCCESS">>,
                                  TRUE, "none", problemInfo, <<>>, Clients)
               ELSE PrimarySettle("primary:synth-return", r, CallHistory(p2, outcome), FALSE,
                                  IF runs[r].synthKind = "mcq" THEN MCQFailure(p2, outcome, raw)
                                                              ELSE SolutionFailure(p2, outcome, raw),
                                  problemInfo, extraScreenshotQueue, Clients)

----------------------------------------------------------------------------
(* The debug run: processScreenshots in view "solutions" (lines 400-470)    *)
(* and processExtraScreenshotsHelper (lines 1538-1851)                      *)

HasDebuggedSetAlways(success, old) == TRUE

\* lines 443-444: setHasDebugged(true) is called on a successful result only
HasDebuggedAfter(success, old) == IF success THEN TRUE ELSE old

DebugSettle(op, r, pre, success, err) ==
    /\ effects' = pre \o (IF success THEN <<"call:setHasDebugged:true", "DEBUG_SUCCESS">>
                                     ELSE <<"DEBUG_ERROR">>)
    /\ hasDebugged' = HasDebuggedAfter(success, hasDebugged)
    /\ currentExtraProcessingAbortController' = SlotAfterSettle(currentExtraProcessingAbortController, r)
    /\ runs' = [runs EXCEPT ![r] = DoneRun(@, IF success THEN "success" ELSE "failure")]
    /\ lastOp' = [name |-> op, run |-> r, error |-> IF success THEN "none" ELSE err]
    /\ UNCHANGED <<view, problemInfo, screenshotQueue, extraScreenshotQueue, config,
                   previousConfig, openaiClient, geminiApiKey, anthropicClient,
                   currentProcessingAbortController, aborted, nextRun, configChanges, resetPending>>

\* The image reads complete; with at least one image the helper reads the
\* stored problemInfo (line 1543) and awaits getLanguage (line 1544).
DebugLoaded(r) ==
    /\ UNCHANGED <<responseText, parseResult, parsedJSON, questionSet, noteVars>>
    /\ runs[r].pc = "loading" /\ runs[r].kind = "debug"
    /\ LET validScreenshots == FilterBoolean(ReadAll(runs[r].paths, runs[r].readable))
       IN IF validScreenshots = <<>>
            THEN DebugSettle("debug:loaded", r, <<>>, FALSE, MsgLoadFailedDebug)
            ELSE /\ runs' = [runs EXCEPT ![r] =
                               [@ EXCEPT !.pc = "language",
                                         !.images = validScreenshots,
                                         !.onDisk = {}, !.readable = {},
                                         !.hadInfo = (problemInfo # NoInfo)]]
                 /\ lastOp' = [name |-> "debug:loaded", run |-> r, error |-> "none"]
                 /\ effects' = <<>>
                 /\ UNCHANGED <<view, problemInfo, hasDebugged, screenshotQueue,
                                extraScreenshotQueue, config, previousConfig, openaiClient,
                                geminiApiKey, anthropicClient, currentProcessingAbortController,
                                currentExtraProcessingAbortController, aborted, nextRun,
                                configChanges, resetPending>>

\* getLanguage has answered: the config is loaded (line 1545), progress 30
\* and 60 are sent and the debug call is issued.
DebugIssue(r) ==
    /\ UNCHANGED <<responseText, parseResult, parsedJSON, questionSet, noteVars>>
    /\ runs[r].pc = "language" /\ runs[r].kind = "debug"
    /\ LET p == config.apiProvider
       IN  IF ~runs[r].hadInfo
             THEN DebugSettle("debug:issue", r, <<>>, FALSE, MsgNoProblemInfo)
           ELSE IF ~Has(Clients, p)
             THEN DebugSettle("debug:issue", r, <<"status:30">>, FALSE, NotConfigured(p))
           ELSE IF RejectedByAbort(p, r)
             THEN DebugSettle("debug:issue", r, <<"status:30", "status:60">>, FALSE,
                              DebugFailure(p, "cancelled", MsgRaw))
           ELSE /\ runs' = [runs EXCEPT ![r] = [@ EXCEPT !.pc = "debug", !.provider = p]]
                /\ lastOp' = [name |-> "debug:issue", run |-> r, error |-> "none"]
                /\ effects' = <<"status:30", "status:60", "net:debug">>
                /\ UNCHANGED <<view, problemInfo, hasDebugged, screenshotQueue,
                               extraScreenshotQueue, config, previousConfig, openaiClient,
                               geminiApiKey, anthropicClient, currentProcessingAbortController,
                               currentExtraProcessingAbortController, aborted, nextRun,
                               configChanges, resetPending>>

\* error.message of the TypeError that debugContent.match (line 1818) throws
\* when debugContent is null or undefined; the catch at 1847 returns it
MsgNoContent == "Cannot read properties of null (reading 'match')"

\* an answer whose first content part carries no text: message.content is
\* null (1636), parts[0].text or content[0].text is undefined (1710, 1785)
DebugOutcomes(p, r) ==
    IF RejectedByAbort(p, r) THEN {"cancelled"} ELSE NetOutcomes \cup {"nocontent"}

\* The debug call has ended: progress 100 on any answer (1810-1815), and a
\* success result when the answer has text.
DebugReturn(r) ==
    /\ UNCHANGED <<responseText, parseResult, parsedJSON, questionSet, noteVars>>
    /\ runs[r].pc = "debug"
    /\ \E outcome \in DebugOutcomes(runs[r].provider, r), raw \in Raw(runs[r].provider) :
          IF Answered(outcome)
            THEN DebugSettle("debug:return", r, <<"status:100">>, TRUE, "none")
          ELSE IF outcome = "nocontent"
            THEN DebugSettle("debug:return", r, <<"status:100">>, FALSE, MsgNoContent)
            ELSE DebugSettle("debug:return", r, <<>>, FALSE, DebugFailure(runs[r].provider, outcome, raw))

----------------------------------------------------------------------------

Next ==
    \/ TakeScreenshot
    \/ \E c \in Configs : ConfigUpdated(c)
    \/ cancelOngoingRequests
    \/ processScreenshotsNoClient
    \/ processScreenshotsNoScreenshots
    \/ StartPrimary
    \/ StartDebug
    \/ \E r \in Runs : PrimaryLoaded(r)
    \/ \E r \in Runs : ExtractIssue(r)
    \/ \E r \in Runs : ExtractReturn(r)
    \/ \E r \in Runs : SynthIssue(r)
    \/ \E r \in Runs : SynthReturn(r)
    \/ \E r \in Runs : DebugLoaded(r)
    \/ \E r \in Runs : DebugIssue(r)
    \/ \E r \in Runs : DebugReturn(r)

Spec == Init /\ [][Next]_vars

----------------------------------------------------------------------------
(* The same pipeline with a provider key configured and left alone, and     *)
(* queues of up to MaxLoadQueue screenshots: the image-loading cases (files *)
(* missing or unreadable at any position of the queue).                     *)

InitLoad == Init /\ config.apiKey # NoKey

NextLoad ==
    \/ TakeScreenshotUpTo(MaxLoadQueue)
    \/ processScreenshotsNoScreenshots
    \/ StartPrimary
    \/ StartDebug
    \/ \E r \in Runs : PrimaryLoaded(r)
    \/ \E r \in Runs : ExtractIssue(r)
    \/ \E r \in Runs : ExtractReturn(r)
    \/ \E r \in Runs : SynthIssue(r)
    \/ \E r \in Runs : SynthReturn(r)
    \/ \E r \in Runs : DebugLoaded(r)
    \/ \E r \in Runs : DebugIssue(r)
    \/ \E r \in Runs : DebugReturn(r)

SpecLoad == InitLoad /\ [][NextLoad]_vars

----------------------------------------------------------------------------
(* Parsing of provider responses.  A response text is a sequence of         *)
(* tokens: "F" a code fence (three backquotes), "{" and "}", "q" a double   *)
(* quote, "a" a character of prose, which JSON.parse accepts only inside a  *)
(* string.  White space and the optional language tag after a fence are     *)
(* left out.                                                                *)

Tokens == {"F", "{", "}", "q", "a"}

Texts == UNION {[1..n -> Tokens] : n \in 0..MaxTextLen}

\* a JSON string: quotes around anything but a quote
IsString(t) ==
    /\ Len(t) >= 2
    /\ t[1] = "q" /\ t[Len(t)] = "q"
    /\ \A i \in 2..(Len(t) - 1) : t[i] # "q"

\* JSON.parse(t) returns: t is a string, the empty object, or an object
\* whose members are stood for by one string
JSONParses(t) ==
    \/ IsString(t)
    \/ t = <<"{", "}">>
    \/ Len(t) >= 4 /\ t[1] = "{" /\ t[Len(t)] = "}" /\ IsString(SubSeq(t, 2, Len(t) - 1))

Positions(t, tok) == {i \in 1..Len(t) : t[i] = tok}

Min(S) == CHOOSE x \in S : \A y \in S : x <= y

Max(S) == CHOOSE x \in S : \A y \in S : x >= y

\* responseText.match(/```(?:json)?([\s\S]*?)```/) || [null, responseText]
\* (lines 610, 717): the text between the first fence and the next one, or
\* the whole text when there are not two fences
FenceMatched(t) == Cardinality(Positions(t, "F")) >= 2

FenceCapture(t) ==
    IF FenceMatched(t)
      THEN LET first == Min(Positions(t, "F"))
               next  == Min(Positions(t, "F") \ {first})
           IN  SubSeq(t, first + 1, next - 1)
      ELSE t

\* responseText.match(/\{[\s\S]*\}/) (lines 620, 725, 1115): from the first
\* opening brace to the last closing brace
BraceMatched(t) ==
    /\ Positions(t, "{") # {} /\ Positions(t, "}") # {}
    /\ Min(Positions(t, "{")) < Max(Positions(t, "}"))

BraceCapture(t) == SubSeq(t, Min(Positions(t, "{")), Max(Positions(t, "}")))

\* responseText.replace(/```json|```/g, '') (line 781): every fence removed
StripFences(t) == LET NotFence(x) == x # "F" IN SelectSeq(t, NotFence)

Parsed(stage, strategy, value) ==
    [stage |-> stage, ok |-> TRUE, strategy |-> strategy, value |-> value, error |-> "none"]

Failed(stage, error) ==
    [stage |-> stage, ok |-> FALSE, strategy |-> "none", value |-> <<>>, error |-> error]

\* lines 610-631 (OpenAI) and 717-731 (Gemini): fence capture or whole text,
\* JSON.parse; on a SyntaxError the brace capture, JSON.parse; otherwise the
\* branch's failure result (639-642, 737-742)
ParseFenceThenBrace(t, error) ==
    IF JSONParses(FenceCapture(t))
      THEN Parsed("extraction", IF FenceMatched(t) THEN "fence" ELSE "direct", FenceCapture(t))
    ELSE IF BraceMatched(t) /\ JSONParses(BraceCapture(t))
      THEN Parsed("extraction", "brace", BraceCapture(t))
    ELSE Failed("extraction", error)

\* lines 780-803 (Anthropic): fences removed, JSON.parse; a SyntaxError is
\* caught with the API errors, its message naming a token or not
ParseStripped(t, error) ==
    IF JSONParses(StripFences(t))
      THEN Parsed("extraction", IF StripFences(t) = t THEN "direct" ELSE "stripped", StripFences(t))
      ELSE Failed("extraction", error)

ParseErrors(p) ==
    CASE p = "openai" -> {MsgParseFailed}
      [] p = "gemini" -> {MsgGeminiFailed}
      [] p = "anthropic" -> {MsgClaudeTooMuch, MsgAnthropicFailed}

ParseExtraction(p, t, error) ==
    IF p = "anthropic" THEN ParseStripped(t, error) ELSE ParseFenceThenBrace(t, error)

\* parseMCQResponse (1112-1172): the brace capture parsed as JSON; without a
\* brace capture the text is split into question blocks; any exception
\* yields { answers: [] }
parseMCQResponse(t) ==
    IF BraceMatched(t)
      THEN IF JSONParses(BraceCapture(t))
             THEN Parsed("synthesis", "brace", BraceCapture(t))
             ELSE Parsed("synthesis", "placeholder", <<>>)
      ELSE Parsed("synthesis", "heuristic", t)

\* lines 1422-1423: the first fenced block is the code, or else the whole text
ParseSolution(t) ==
    Parsed("synthesis", IF FenceMatched(t) THEN "fence" ELSE "direct", FenceCapture(t))

\* The extraction text of the configured provider is parsed
ParseExtractionText ==
    /\ parseResult.stage # "extraction"
    /\ \E error \in ParseErrors(config.apiProvider) :
          parseResult' = ParseExtraction(config.apiProvider, responseText, error)
    /\ UNCHANGED <<view, problemInfo, hasDebugged, screenshotQueue, extraScreenshotQueue,
                   config, previousConfig, openaiClient, geminiApiKey, anthropicClient,
                   currentProcessingAbortController, currentExtraProcessingAbortController,
                   aborted, runs, nextRun, configChanges, resetPending, lastOp, effects,
                   responseText, parsedJSON, questionSet, noteVars>>

\* The synthesis text is parsed: parseMCQResponse in MCQ mode (line 1087),
\* the solution parts otherwise (1422-1489)
ParseSynthesisText ==
    /\ parseResult.stage # "synthesis"
    /\ parseResult' = IF config.mode = "mcq" THEN parseMCQResponse(responseText)
                                             ELSE ParseSolution(responseText)
    /\ UNCHANGED <<view, problemInfo, hasDebugged, screenshotQueue, extraScreenshotQueue,
                   config, previousConfig, openaiClient, geminiApiKey, anthropicClient,
                   currentProcessingAbortController, currentExtraProcessingAbortController,
                   aborted, runs, nextRun, configChanges, resetPending, lastOp, effects,
                   responseText, parsedJSON, questionSet, noteVars>>

InitParse ==
    /\ InitPipeline
    /\ NoTextInput
    /\ config.apiKey # NoKey
    /\ responseText \in Texts
    /\ parseResult = NoResult
    /\ parsedJSON = Undefined
    /\ questionSet = Undefined

NextParse ==
    \/ ParseExtractionText
    \/ ParseSynthesisText

SpecParse == InitParse /\ [][NextParse]_vars

----------------------------------------------------------------------------
(* Complexity extraction from a coding solution text (1445-1478).  The text *)
(* is a sequence of tokens: "T" the label "Time complexity:", "S" the label *)
(* "Space complexity:", "O" a Big-O notation as /O\([^)]+\)/i matches it,   *)
(* "d" a dash, "b" the word "because", "w" any other word, "n" a newline.   *)
(* Blanks inside a line are left out.                                       *)

SolutionTokens == {"T", "S", "O", "d", "b", "w", "n"}

SolutionTexts == UNION {[1..n -> SolutionTokens] : n \in 0..MaxSolutionLen}

\* the initial values of timeComplexity and spaceComplexity (1449-1450)
DefaultTimeComplexity == <<"O(n)", "d", "Linear time complexity because we only iterate through the array once">>

DefaultSpaceComplexity == <<"O(n)", "d", "Linear space complexity because we store elements in the hashmap">>

\* what may follow the newlines after the captured lines: (?:Space
\* complexity|$) for the time pattern, (?:[A-Z]|$) under the i flag for the
\* space pattern
TimeStop == {"S"}

SpaceStop == {"T", "S", "O", "b", "w"}

\* \s* : the first position from k on that holds no newline
SkipNewlines(t, k) == Min({j \in k..Len(t) : t[j] # "n"} \cup {Len(t) + 1})

\* [^\n]+ : the last position of the line that starts at p
LineEnd(t, p) == Min({j \in p..Len(t) : t[j] = "n"} \cup {Len(t) + 1}) - 1

\* ([^\n]+(?:\n[^\n]+)*?)(?=\n\s*(?:stop|$)) with the capture starting at p
\* and its current line ending at e: the end of the capture, or 0 when the
\* pattern does not match from here.  The lookahead needs a newline after
\* the capture; a further line is taken only when it follows directly.
RECURSIVE CaptureEnd(_, _, _)
CaptureEnd(t, e, stop) ==
    IF e >= Len(t) THEN 0
    ELSE LET q == SkipNewlines(t, e + 1)
         IN  IF q > Len(t) \/ t[q] \in stop THEN e
             ELSE IF q = e + 2 THEN CaptureEnd(t, LineEnd(t, q), stop)
             ELSE 0

\* the pattern tried with its label at position i: <<start, end>> of the
\* capture, or <<0, 0>>
MatchAt(t, i, stop) ==
    LET p == SkipNewlines(t, i + 1)
    IN  IF p > Len(t) THEN <<0, 0>>
        ELSE LET e == CaptureEnd(t, LineEnd(t, p), stop)
             IN  IF e = 0 THEN <<0, 0>> ELSE <<p, e>>

\* responseContent.match(pattern): the leftmost label from which the pattern
\* matches; group 1, or <<>> for no match (1452, 1466)
ComplexityMatch(t, label, stop) ==
    LET starts == {i \in Positions(t, label) : MatchAt(t, i, stop) # <<0, 0>>}
    IN  IF starts = {} THEN <<>>
        ELSE LET m == MatchAt(t, Min(starts), stop) IN SubSeq(t, m[1], m[2])

HasNotation(c) == \E i \in 1..Len(c) : c[i] \in {"O", "O(n)"}

\* timeComplexity.replace(notation, ''): the first notation removed
WithoutNotation(c) ==
    LET k == Min({i \in 1..Len(c) : c[i] \in {"O", "O(n)"}})
    IN  SubSeq(c, 1, k - 1) \o SubSeq(c, k + 1, Len(c))

FirstNotation(c) == c[Min({i \in 1..Len(c) : c[i] \in {"O", "O(n)"}})]

\* a captured text without a notation is returned as it is
PrefixOmitted(c) == c

\* `O(n) - ${timeComplexity}` (1455-1456, 1469-1470)
PrefixLinear(c) == <<"O(n)", "d">> \o c

\* lines 1453-1464 (time) and 1467-1478 (space)
NormalizeComplexity(c) ==
    IF ~HasNotation(c) THEN PrefixLinear(c)
    ELSE IF (\A i \in 1..Len(c) : c[i] \notin {"d", "b"})
      THEN <<FirstNotation(c), "d">> \o WithoutNotation(c)
    ELSE c

Complexity(t, label, stop, default) ==
    IF ComplexityMatch(t, label, stop) = <<>> THEN default
    ELSE NormalizeComplexity(ComplexityMatch(t, label, stop))

\* formattedResponse (1480-1485), its two complexity fields
FormattedResponse(t) ==
    [time_complexity  |-> Complexity(t, "T", TimeStop, DefaultTimeComplexity),
     space_complexity |-> Complexity(t, "S", SpaceStop, DefaultSpaceComplexity)]

PipelineUnchanged ==
    UNCHANGED <<view, problemInfo, hasDebugged, screenshotQueue, extraScreenshotQueue,
                config, previousConfig, openaiClient, geminiApiKey, anthropicClient,
                currentProcessingAbortController, currentExtraProcessingAbortController,
                aborted, runs, nextRun, configChanges, resetPending, lastOp, effects>>

\* generateSolutionsHelper builds its result from the solution text
FormatSolution ==
    /\ parseResult.stage = "none"
    /\ parseResult' = [stage |-> "solution", ok |-> TRUE, strategy |-> "none",
                       value |-> FormattedResponse(responseText), error |-> "none"]
    /\ UNCHANGED <<responseText, parsedJSON, questionSet, noteVars>>
    /\ PipelineUnchanged

InitSolution ==
    /\ InitPipeline
    /\ NoTextInput
    /\ config.apiKey # NoKey
    /\ config.mode = "coding"
    /\ responseText \in SolutionTexts
    /\ parseResult = NoResult
    /\ parsedJSON = Undefined
    /\ questionSet = Undefined

NextSolution == FormatSolution

SpecSolution == InitSolution /\ [][NextSolution]_vars

----------------------------------------------------------------------------
(* Multiple-choice normalization (1881-2065).  A question or response text  *)
(* is a sequence of tokens: option markers "A.", "B." (upper-case letter and *)
(* period), "a." (lower-case), "1." (digit), "option A:" (the word and a     *)
(* colon); the words "x" and "y"; "(" a word holding an opening parenthesis; *)
(* "n" a newline.  The tokens of a line are separated by one blank.          *)

OptionTokens == {"A.", "B.", "a.", "1.", "option A:", "x", "y", "(", "n"}

OptionTexts == UNION {[1..n -> OptionTokens] : n \in 0..MaxOptionTextLen}

\* which of the four optionPatterns (2008-2013) can start at a token
MarkerStyle(tok) ==
    CASE tok \in {"A.", "B."} -> "upper"
      [] tok = "a." -> "lower"
      [] tok = "1." -> "digit"
      [] tok = "option A:" -> "word"
      [] OTHER -> "text"

\* match[groupKey]
MarkerKey(tok) ==
    CASE tok = "A." -> "A"
      [] tok = "B." -> "B"
      [] tok = "a." -> "a"
      [] tok = "1." -> "1"
      [] tok = "option A:" -> "A"

OptionStyles == <<"upper", "lower", "digit", "word">>

Letters == {"a", "b", "c", "d", "e", "A", "B", "C", "D", "E"}

toUpperCase(k) ==
    CASE k = "a" -> "A" [] k = "b" -> "B" [] k = "c" -> "C" [] k = "d" -> "D"
      [] k = "e" -> "E" [] OTHER -> k

toLowerCase(k) ==
    CASE k = "A" -> "a" [] k = "B" -> "b" [] k = "C" -> "c" [] k = "D" -> "d"
      [] k = "E" -> "e" [] OTHER -> k

\* String.fromCharCode(64 + parseInt(key)) for a key that /^[1-4]$/ accepts
fromCharCode(k) ==
    CASE k = "1" -> "A" [] k = "2" -> "B" [] k = "3" -> "C" [] k = "4" -> "D"

\* keys that are array indices come first in an object, in ascending order
IndexKeys == {"1", "2", "3", "4", "5"}

parseInt(k) ==
    CASE k = "1" -> 1 [] k = "2" -> 2 [] k = "3" -> 3 [] k = "4" -> 4 [] k = "5" -> 5

\* An object is the sequence of its <<key, value>> entries, in the order of
\* Object.entries.
HasKey(obj, k) == \E i \in 1..Len(obj) : obj[i][1] = k

\* obj[k], for a key the object has
Get(obj, k) == obj[CHOOSE i \in 1..Len(obj) : obj[i][1] = k][2]

\* obj[k] = v
SetProperty(obj, k, v) ==
    IF HasKey(obj, k)
      THEN [i \in 1..Len(obj) |-> IF obj[i][1] = k THEN <<k, v>> ELSE obj[i]]
    ELSE IF k \in IndexKeys
      THEN LET before == {i \in 1..Len(obj) :
                             obj[i][1] \in IndexKeys /\ parseInt(obj[i][1]) < parseInt(k)}
               n == Cardinality(before)
           IN  SubSeq(obj, 1, n) \o <<<<k, v>>>> \o SubSeq(obj, n + 1, Len(obj))
    ELSE Append(obj, <<k, v>>)

\* (?=\s*[A-D][\.\)]|$) after a capture that ends at k: a marker of the same
\* style follows, or the text ends
LookaheadHolds(t, style, k) ==
    \/ k = Len(t)
    \/ LET q == SkipNewlines(t, k + 1)
       IN  q <= Len(t) /\ MarkerStyle(t[q]) = style

\* the capture ([^\n]+) of the pattern of a style when its marker is at i:
\* <<start, end>>, or <<0, 0>> when the pattern does not match there.  The
\* fourth pattern has no lookahead and takes the rest of the line.  When no
\* longer capture passes the lookahead and a marker of the same style is the
\* next token of the line, the capture is the blank before it (<<i + 1, i>>,
\* an empty text once trimmed).
OptionCapture(t, style, i) ==
    LET p == SkipNewlines(t, i + 1)
        e == LineEnd(t, p)
        ends == IF style = "word" THEN {e}
                ELSE {k \in p..e : LookaheadHolds(t, style, k)}
    IN  IF p <= Len(t) /\ ends # {} THEN <<p, Max(ends)>>
        ELSE IF style # "word" /\ i < Len(t) /\ MarkerStyle(t[i + 1]) = style
          THEN <<i + 1, i>>
        ELSE <<0, 0>>

\* key as stored: toUpperCase, then digits 1-4 to letters (2025-2029)
OptionKeyKept(k) == k

OptionKey(k) ==
    IF toUpperCase(k) \in {"1", "2", "3", "4"} THEN fromCharCode(toUpperCase(k))
    ELSE toUpperCase(k)

\* while ((match = pattern.exec(text)) !== null) from lastIndex on (2023-2031)
RECURSIVE ExecAll(_, _, _, _)

\* options[key] = match[2].trim() (2030) for the match whose marker is at i
\* and whose capture is c; the next exec starts behind it
ExecStore(t, style, options, i, c) ==
    ExecAll(t, style, c[2] + 1,
            SetProperty(options, OptionKey(MarkerKey(t[i])), SubSeq(t, c[1], c[2])))

\* the leftmost of the places where the pattern matches, if there is one
ExecFirst(t, style, options, starts) ==
    IF starts = {} THEN options
    ELSE ExecStore(t, style, options, Min(starts), OptionCapture(t, style, Min(starts)))

ExecAll(t, style, lastIndex, options) ==
    ExecFirst(t, style, options,
              {i \in lastIndex..Len(t) :
                  MarkerStyle(t[i]) = style /\ OptionCapture(t, style, i) # <<0, 0>>})

\* the first pattern, in the order of optionPatterns, that matches somewhere
Matching(t) == {n \in 1..4 : ExecAll(t, OptionStyles[n], 1, <<>>) # <<>>}

\* new RegExp(`\\s*${letter}[.)]\\s*${options[letter]}`, 'i') is a SyntaxError
\* when the option text leaves a parenthesis open
InvalidRegExp(value) == \E i \in 1..Len(value) : value[i] = "("

\* two texts are equal under the flag i
IgnoreCase(tok) == IF tok = "A." THEN "a." ELSE tok

EqualIgnoringCase(u, v) ==
    Len(u) = Len(v) /\ \A i \in 1..Len(u) : IgnoreCase(u[i]) = IgnoreCase(v[i])

\* where optRegex matches in questionText: <<first, last>> of the span, or
\* <<0, 0>>.  The span begins with the newlines before the marker.
OptionSpan(qt, letter, value) ==
    LET hits == {j \in 1..Len(qt) :
                    /\ MarkerStyle(qt[j]) \in {"upper", "lower"}
                    /\ toUpperCase(MarkerKey(qt[j])) = letter
                    /\ LET p == SkipNewlines(qt, j + 1)
                       IN  /\ p + Len(value) - 1 <= Len(qt)
                           /\ EqualIgnoringCase(SubSeq(qt, p, p + Len(value) - 1), value)}
    IN  IF hits = {} THEN <<0, 0>>
        ELSE LET j == Min(hits)
                 first == Min({k \in 1..j : \A m \in k..(j - 1) : qt[m] = "n"})
             IN  <<first, SkipNewlines(qt, j + 1) + Len(value) - 1>>

\* questionText.replace(optRegex, '') (2037); for a letter without an option
\* the pattern holds the word "undefined" and matches nothing
RemoveOption(qt, letter, options) ==
    IF ~HasKey(options, letter) THEN qt
    ELSE LET span == OptionSpan(qt, letter, Get(options, letter))
         IN  IF span = <<0, 0>> THEN qt
             ELSE SubSeq(qt, 1, span[1] - 1) \o SubSeq(qt, span[2] + 1, Len(qt))

\* for (const letter of ['A', 'B', 'C', 'D']) (2035-2038)
RemoveOptions(qt, options) ==
    RemoveOption(RemoveOption(RemoveOption(RemoveOption(qt, "A", options),
                                           "B", options), "C", options), "D", options)

\* text.split('\n').filter(line => line.trim().length > 0) (2045)
RECURSIVE Lines(_)
Lines(t) ==
    IF t = <<>> THEN <<>>
    ELSE IF t[1] = "n" THEN Lines(Tail(t))
    ELSE LET e == LineEnd(t, 1)
         IN  <<SubSeq(t, 1, e)>> \o Lines(SubSeq(t, e + 1, Len(t)))

\* options taken from the lines after the first (2052-2060)
LineOptions(lines) ==
    LET letters == <<"A", "B", "C", "D">>
        count == IF Len(lines) - 1 < 4 THEN Len(lines) - 1 ELSE 4
    IN  [i \in 1..count |-> <<letters[i], lines[i + 1]>>]

Extracted(questionText, options) ==
    [raised |-> FALSE, questionText |-> questionText, options |-> options]

Raised == [raised |-> TRUE, questionText |-> <<>>, options |-> <<>>]

\* extractOptionsFromText (2003-2065), for a text that is a string
\* 2033-2040: the options a pattern has found are cut out of the text
ExtractedByPattern(text, options) ==
    IF \E l \in {"A", "B", "C", "D"} : HasKey(options, l) /\ InvalidRegExp(Get(options, l))
      THEN Raised
    ELSE Extracted(RemoveOptions(text, options), options)

\* 2044-2062: no pattern matched, the first line is the question
ExtractedByLines(text, lines) ==
    IF lines # <<>> THEN Extracted(lines[1], LineOptions(lines))
    ELSE Extracted(text, <<>>)

\* for (const pattern of optionPatterns) with the patterns that match (2016-2041)
ExtractedWith(text, matching) ==
    IF matching # {}
      THEN ExtractedByPattern(text, ExecAll(text, OptionStyles[Min(matching)], 1, <<>>))
    ELSE ExtractedByLines(text, Lines(text))

extractOptionsFromText(text) == ExtractedWith(text, Matching(text))

\* one element of problemInfo.questions; has_text and has_options tell whether
\* the field is there at all
Question(number, has_text, text, has_options, options) ==
    [question_number |-> number, has_text |-> has_text, question_text |-> text,
     has_options |-> has_options, options |-> options]

\* a question pattern of extractQuestionsFromText (1959-1962) matched from
\* lastIndex on: the marker, [\s]*, and the rest of the line
RECURSIVE QuestionMatches(_, _, _)
QuestionMatches(t, styles, lastIndex) ==
    LET starts == {i \in lastIndex..Len(t) :
                      MarkerStyle(t[i]) \in styles /\ SkipNewlines(t, i + 1) <= Len(t)}
    IN  IF starts = {} THEN <<>>
        ELSE LET i == Min(starts)
                 p == SkipNewlines(t, i + 1)
             IN  <<[number |-> MarkerKey(t[i]), fullText |-> SubSeq(t, p, LineEnd(t, p))]>>
                   \o QuestionMatches(t, styles, LineEnd(t, p) + 1)

\* text.split(/\n\s*\n/).filter(block => block.trim().length > 0) (1985)
RECURSIVE Blocks(_, _)
Blocks(t, from) ==
    LET breaks == {i \in from..(Len(t) - 1) : t[i] = "n" /\ t[i + 1] = "n"}
        stop   == IF breaks = {} THEN Len(t) + 1 ELSE Min(breaks)
        block  == SubSeq(t, from, stop - 1)
        rest   == IF stop > Len(t) THEN <<>> ELSE Blocks(t, SkipNewlines(t, stop))
    IN  IF from > Len(t) THEN <<>>
        ELSE IF \A i \in 1..Len(block) : block[i] = "n" THEN rest
        ELSE <<block>> \o rest

\* questions.push({question_number, question_text, options}) (1973-1977, 1990-1994)
PushedResult(number, extractResult) ==
    Question(number, TRUE, extractResult.questionText, TRUE, extractResult.options)

PushedQuestion(number, text) == PushedResult(number, extractOptionsFromText(text))

toString(i) == CASE i = 1 -> "1" [] i = 2 -> "2" [] i = 3 -> "3" [] i = 4 -> "4" [] OTHER -> "5"

\* if (Object.keys(extractResult.options).length > 0) questions.push(...) (1988-1995)
BlockQuestion(i, extractResult) ==
    IF extractResult.options # <<>> THEN <<PushedResult(toString(i), extractResult)>> ELSE <<>>

RECURSIVE BlockQuestions(_, _)
BlockQuestions(blocks, i) ==
    IF i > Len(blocks) THEN <<>>
    ELSE BlockQuestion(i, extractOptionsFromText(blocks[i])) \o BlockQuestions(blocks, i + 1)

Normalized(questions) == [raised |-> FALSE, questions |-> questions]

NormalizeRaised == [raised |-> TRUE, questions |-> <<>>]

\* extractQuestionsFromText (1954-1998)
\* the questions of the pattern matches (1964-1980), or, when no pattern
\* matched, of the blocks (1983-1996)
QuestionsOf(matches, blocks) ==
    IF \E i \in 1..Len(matches) : extractOptionsFromText(matches[i].fullText).raised
      THEN NormalizeRaised
    ELSE IF matches # <<>>
      THEN Normalized([i \in 1..Len(matches) |->
                          PushedQuestion(matches[i].number, matches[i].fullText)])
    ELSE IF \E i \in 1..Len(blocks) : extractOptionsFromText(blocks[i]).raised
      THEN NormalizeRaised
    ELSE Normalized(BlockQuestions(blocks, 1))

extractQuestionsFromText(text) ==
    QuestionsOf(QuestionMatches(text, {"digit"}, 1) \o QuestionMatches(text, {"upper", "lower"}, 1),
                Blocks(text, 1))

\* the structure returned when nothing could be extracted (1893-1906)
PlaceholderQuestions ==
    <<Question("1", TRUE, <<"Failed to extract question text properly">>, TRUE,
               <<<<"A", <<"Option A">>>>, <<"B", <<"Option B">>>>,
                 <<"C", <<"Option C">>>>, <<"D", <<"Option D">>>>>>)>>

\* { "A": "No options extracted", "B": "", "C": "", "D": "" } (1927)
DefaultOptions ==
    <<<<"A", <<"No options extracted">>>>, <<"B", <<>>>>, <<"C", <<>>>>, <<"D", <<>>>>>>

\* the key an option is stored under (1936-1943)
normalizedKey(key) ==
    IF key \in {"1", "2", "3", "4"} THEN fromCharCode(key)
    ELSE IF toLowerCase(key) \in {"a", "b", "c", "d"} THEN toUpperCase(key)
    ELSE key

\* Object.entries(question.options).forEach(...) (1934-1945)
RECURSIVE normalizedOptions(_, _, _)
normalizedOptions(options, i, acc) ==
    IF i > Len(options) THEN acc
    ELSE normalizedOptions(options, i + 1,
                           SetProperty(acc, normalizedKey(options[i][1]), options[i][2]))

\* extractOptionsFromText(question.question_text) at 1920; without a
\* question_text the call ends in text.split of undefined, a TypeError (2045)
OptionsExtract(question) ==
    IF question.has_text THEN extractOptionsFromText(question.question_text) ELSE Raised

\* one round of the loop at 1910-1946 for the question at index i
FixedWith(question, i, optionsExtract) ==
    LET number == IF question.question_number = Undefined THEN toString(i)
                  ELSE question.question_number
        missing == ~question.has_options \/ question.options = <<>>
        found   == missing /\ optionsExtract.options # <<>>
        text    == IF found THEN optionsExtract.questionText
                   ELSE question.question_text
        options == IF found THEN optionsExtract.options
                   ELSE IF missing THEN DefaultOptions
                   ELSE question.options
    IN  Question(number, question.has_text \/ found, text, TRUE,
                 normalizedOptions(options, 1, <<>>))

FixedQuestion(question, i) == FixedWith(question, i, OptionsExtract(question))

\* validateAndFixMCQFormat (1881-1949); problemInfo without questions stands
\* for every argument the first test rejects
\* 1887-1906: the questions extracted from the raw response, or the placeholder
ExtractedOrPlaceholder(extracted) ==
    IF extracted.raised THEN NormalizeRaised
    ELSE IF extracted.questions # <<>> THEN extracted
    ELSE Normalized(PlaceholderQuestions)

validateAndFixMCQFormat(info, rawResponse) ==
    IF info.questions = <<>>
      THEN ExtractedOrPlaceholder(extractQuestionsFromText(rawResponse))
    ELSE IF \E i \in 1..Len(info.questions) :
                 /\ ~info.questions[i].has_options \/ info.questions[i].options = <<>>
                 /\ OptionsExtract(info.questions[i]).raised
      THEN NormalizeRaised
    ELSE Normalized([i \in 1..Len(info.questions) |-> FixedQuestion(info.questions[i], i)])

\* option objects as JSON.parse builds them: distinct keys, index keys first
OptionKeys == {"1", "5", "a", "A", "e"}

OptionValues == {<<"x">>, <<"y">>}

RECURSIVE FromEntries(_, _, _)
FromEntries(entries, i, acc) ==
    IF i > Len(entries) THEN acc
    ELSE FromEntries(entries, i + 1, SetProperty(acc, entries[i][1], entries[i][2]))

OptionObjects ==
    {o \in UNION {[1..n -> OptionKeys \X OptionValues] : n \in 1..2} : FromEntries(o, 1, <<>>) = o}

\* the questions handed to validateAndFixMCQFormat: with options, or without
\* (absent or empty) and any question text or none
InputQuestions ==
    {Question(number, text[1], text[2], TRUE, options) :
        number \in {Undefined, "1"}, text \in {<<FALSE, <<>>>>, <<TRUE, <<"x">>>>},
        options \in OptionObjects}
    \cup
    {Question(number, text[1], text[2], has_options, <<>>) :
        number \in {Undefined, "1"},
        text \in {<<FALSE, <<>>>>} \cup ({TRUE} \X OptionTexts),
        has_options \in BOOLEAN}

RawSamples == {<<>>, <<"1.", "x">>}

\* validateAndFixMCQFormat(problemInfo, responseText) (634-636, 734-736)
NormalizeMCQ ==
    /\ parseResult.stage = "none"
    /\ LET fixed == validateAndFixMCQFormat(parsedJSON, responseText)
       IN  parseResult' = [stage |-> "normalized", ok |-> ~fixed.raised,
                           strategy |-> "none", value |-> fixed, error |-> "none"]
    /\ UNCHANGED <<responseText, parsedJSON, questionSet, noteVars>>
    /\ PipelineUnchanged

\* extractOptionsFromText applied to a text
ExtractOptions ==
    /\ parseResult.stage = "none"
    /\ LET extractResult == extractOptionsFromText(responseText)
       IN  parseResult' = [stage |-> "options", ok |-> ~extractResult.raised,
                           strategy |-> "none", value |-> extractResult, error |-> "none"]
    /\ UNCHANGED <<responseText, parsedJSON, questionSet, noteVars>>
    /\ PipelineUnchanged

\* multiple-choice mode with a provider whose extraction is normalized
InitMCQ ==
    /\ InitPipeline
    /\ NoTextInput
    /\ config.apiKey # NoKey
    /\ config.mode = "mcq"
    /\ config.apiProvider \in {"openai", "gemini"}
    /\ parseResult = NoResult

InitOptions ==
    /\ InitMCQ
    /\ responseText \in OptionTexts
    /\ parsedJSON = Undefined
    /\ questionSet = Undefined

NextOptions == ExtractOptions

InitNormalize ==
    /\ InitMCQ
    /\ questionSet = Undefined
    /\ \/ parsedJSON = [questions |-> <<>>] /\ responseText \in OptionTexts
       \/ /\ parsedJSON \in {[questions |-> <<q>>] : q \in InputQuestions}
          /\ responseText \in RawSamples

NextNormalize == NormalizeMCQ

SpecNormalize == InitNormalize /\ [][NextNormalize]_vars

SpecOptions == InitOptions /\ [][NextOptions]_vars

----------------------------------------------------------------------------
(* Backfill of parsed answers from the question set (1119-1134) *)

\* one element of parsed.answers
Answer(has_text, text, has_options, options) ==
    [has_text |-> has_text, question_text |-> text,
     has_options |-> has_options, options |-> options]

AnswerTextKept(answer, question) == answer.question_text

\* if (!answer.question_text) answer.question_text = question.question_text || ""
\* (1123-1125); an absent question_text of the question is held as <<>>
AnswerText(answer, question) ==
    IF ~answer.has_text \/ answer.question_text = <<>> THEN question.question_text
    ELSE answer.question_text

\* if (!answer.options && question.options) answer.options = question.options
\* (1127-1129)
AnswerOptions(answer, question) ==
    IF ~answer.has_options /\ question.has_options THEN question.options
    ELSE answer.options

\* the body of parsed.answers.forEach (1121-1131) for the answer at index i
BackfilledAnswer(answer, questions, i) ==
    IF ~questions.present \/ i > Len(questions.list) THEN answer
    ELSE LET question == questions.list[i]
         IN  Answer(TRUE, AnswerText(answer, question),
                    answer.has_options \/ question.has_options,
                    AnswerOptions(answer, question))

\* parseMCQResponse, the answers of a parsed JSON object (1117-1135)
BackfillAnswers ==
    /\ parseResult.stage = "none"
    /\ parseResult' = [stage |-> "answers", ok |-> TRUE, strategy |-> "brace",
                       value |-> [answers |-> [i \in 1..Len(parsedJSON.answers) |->
                                    BackfilledAnswer(parsedJSON.answers[i], questionSet, i)]],
                       error |-> "none"]
    /\ UNCHANGED <<responseText, parsedJSON, questionSet, noteVars>>
    /\ PipelineUnchanged

\* field values of answers and questions: absent, empty, or given
FieldTexts(given) == {<<FALSE, <<>>>>, <<TRUE, <<>>>>, <<TRUE, given>>}

FieldOptions(given) == {<<FALSE, <<>>>>, <<TRUE, <<>>>>, <<TRUE, <<<<"A", given>>>>>>}

InputAnswers ==
    {Answer(text[1], text[2], options[1], options[2]) :
        text \in FieldTexts(<<"x">>), options \in FieldOptions(<<"x">>)}

SetQuestions ==
    {Question("1", text[1], text[2], options[1], options[2]) :
        text \in FieldTexts(<<"y">>), options \in FieldOptions(<<"y">>)}

InitBackfill ==
    /\ InitMCQ
    /\ responseText = <<"{", "}">>
    /\ parsedJSON \in {[answers |-> a] : a \in UNION {[1..n -> InputAnswers] : n \in 0..MaxAnswers}}
    /\ questionSet \in {[present |-> FALSE, list |-> <<>>]}
         \cup {[present |-> TRUE, list |-> q] :
                  q \in UNION {[1..n -> SetQuestions] : n \in 0..MaxAnswers}}

NextBackfill == BackfillAnswers

SpecBackfill == InitBackfill /\ [][NextBackfill]_vars

----------------------------------------------------------------------------
(* Properties *)

InFlight(r) == runs[r].pc \notin {"idle", "done"}

Emitted(e) == e \in Range(effects)

SlotOf(kind) == IF kind = "primary" THEN currentProcessingAbortController
                                    ELSE currentExtraProcessingAbortController

\* C1: in every reachable state at most one non-aborted primary run and at
\* most one non-aborted debug run are in flight (a new run of a kind aborts
\* the token of the earlier run of that kind before storing its own).
C1_AtMostOneLiveRunPerKind ==
    \A kind \in {"primary", "debug"} :
        Cardinality({r \in Runs : runs[r].kind = kind /\ InFlight(r) /\ r \notin aborted}) <= 1

\* C2: when a second primary run r2 was started while the first, r1, was in
\* flight (r2's token replaced r1's in the slot), no later step of r1
\* overwrites what r2 produced: the ProblemInfo r2 stored stays stored, and
\* the view "solutions" that r2's success set stays.
C2_FirstRunNeverOverwritesSecond ==
    [][\A r1 \in Runs, r2 \in Runs :
          (runs[r2].kind = "primary" /\ runs[r2].displaced = r1 /\ lastOp'.run = r1)
          => /\ (problemInfo.by = r2 => problemInfo' = problemInfo)
             /\ (runs[r2].result = "success" /\ view = "solutions" => view' = "solutions")]_vars

\* C3: a run whose token cancelOngoingRequests has aborted does no further
\* work: its later steps never call setProblemInfo, never send
\* PROBLEM_EXTRACTED, SOLUTION_SUCCESS or DEBUG_SUCCESS, never set the view to
\* "solutions" or hasDebugged to true, and it settles with the cancellation
\* result.
C3_AbortedRunDoesNoFurtherWork ==
    \A r \in Runs :
        (lastOp.run = r /\ r \in aborted)
        => /\ ~Emitted("call:setProblemInfo")
           /\ ~Emitted("PROBLEM_EXTRACTED")
           /\ ~Emitted("SOLUTION_SUCCESS")
           /\ ~Emitted("DEBUG_SUCCESS")
           /\ ~Emitted("call:setView:solutions")
           /\ ~Emitted("call:setHasDebugged:true")
           /\ (runs[r].pc = "done" => lastOp.error = MsgCanceled)

\* C4: a primary run cancelled after its extraction call returned and before
\* its synthesis call is issued never issues the synthesis call.
C4_CancelBetweenStagesStopsSynthesis ==
    \A r \in Runs :
        (lastOp.run = r /\ lastOp.name = "primary:synth-issue"
            /\ runs[r].cancelledAt = "languageSynth")
        => ~Emitted("net:synth")

\* C5: no failure event (INITIAL_SOLUTION_ERROR, DEBUG_ERROR,
\* API_KEY_INVALID) is sent on behalf of a run whose token was cancelled.
C5_CancelledRunReportsNoFailure ==
    \A r \in Runs :
        (lastOp.run = r /\ r \in aborted)
        => /\ ~Emitted("INITIAL_SOLUTION_ERROR")
           /\ ~Emitted("DEBUG_ERROR")
           /\ ~Emitted("API_KEY_INVALID")

\* C6: cancelOngoingRequests aborts exactly the tokens the two slots hold,
\* leaves both slots empty, and sends the reset notification (NO_SCREENSHOTS)
\* if and only if at least one slot held a token when it was called; so with
\* both slots empty it aborts nothing and sends nothing, and a call that
\* directly follows another changes nothing.
C6_CancelAll ==
    [][lastOp'.name = "cancelOngoingRequests"
        => /\ currentProcessingAbortController' = NoToken
           /\ currentExtraProcessingAbortController' = NoToken
           /\ aborted' = aborted \cup ({currentProcessingAbortController,
                                        currentExtraProcessingAbortController} \ {NoToken})
           /\ ("NO_SCREENSHOTS" \in Range(effects')
                 <=> (currentProcessingAbortController # NoToken
                        \/ currentExtraProcessingAbortController # NoToken))
           /\ lastOp.name = "cancelOngoingRequests"
                => /\ "NO_SCREENSHOTS" \notin Range(effects')
                   /\ UNCHANGED <<view, problemInfo, hasDebugged, screenshotQueue,
                                  extraScreenshotQueue, aborted, runs,
                                  currentProcessingAbortController,
                                  currentExtraProcessingAbortController>>]_vars

\* C6 witness: cancelOngoingRequests has just aborted the token of a run in
\* flight and sent the reset notification.
C6_Witness ==
    /\ lastOp.name = "cancelOngoingRequests"
    /\ Emitted("NO_SCREENSHOTS")
    /\ \E r \in Runs : InFlight(r) /\ r \in aborted
    /\ currentProcessingAbortController = NoToken
    /\ currentExtraProcessingAbortController = NoToken

\* C7: after cancel-all the view is "queue" and the stored problem data is
\* cleared, and both stay so until a primary run succeeds.
C7_ResetHoldsUntilPrimarySuccess ==
    resetPending => (view = "queue" /\ problemInfo = NoInfo)

\* C8: the slot of a kind holds a token exactly while a run of that kind is
\* between token issue and settlement: a held token belongs to a run of that
\* kind in flight, the slot is empty when no run of that kind is in flight,
\* and a run in flight that was not cancelled finds its own token in the slot.
C8_SlotHoldsTokenOfRunInFlight ==
    \A kind \in {"primary", "debug"} :
        /\ SlotOf(kind) # NoToken => (runs[SlotOf(kind)].kind = kind /\ InFlight(SlotOf(kind)))
        /\ (\A r \in Runs : ~(runs[r].kind = kind /\ InFlight(r))) => SlotOf(kind) = NoToken
        /\ \A r \in Runs : (runs[r].kind = kind /\ InFlight(r) /\ r \notin aborted) => SlotOf(kind) = r

\* C9: a config-updated notification that changes the mode clears the stored
\* problem data and the debug queue and leaves the view at "queue"; and a
\* primary run that captured the other mode never afterwards stores its
\* problem data, sends SOLUTION_SUCCESS or sets the view to "solutions".
C9_NoStaleResultAfterModeChange ==
    [][/\ (lastOp'.name = "config-updated" /\ config'.mode # config.mode)
          => (problemInfo' = NoInfo /\ extraScreenshotQueue' = <<>> /\ view' = "queue")
       /\ \A r \in Runs :
            (lastOp'.run = r /\ runs[r].kind = "primary"
                /\ runs[r].mode \in Modes /\ runs[r].mode # config.mode)
            => /\ "call:setProblemInfo" \notin Range(effects')
               /\ "SOLUTION_SUCCESS" \notin Range(effects')
               /\ "call:setView:solutions" \notin Range(effects')]_vars

\* C10: every stage of a primary run uses the provider and mode captured at
\* the start of the run (line 488): the synthesis stage's provider is the
\* extraction stage's, and it answers MCQs exactly when the captured mode is
\* "mcq".
C10_RunUsesConfigCapturedAtStart ==
    \A r \in Runs :
        (runs[r].kind = "primary" /\ runs[r].synthProvider # "none")
        => /\ runs[r].synthProvider = runs[r].provider
           /\ (runs[r].synthKind = "mcq" <=> runs[r].mode = "mcq")

\* C11: a primary run ends with view "solutions" if and only if it succeeded,
\* and then the ProblemInfo it extracted is the stored one and
\* SOLUTION_SUCCESS has been sent; a primary run that fails ends with view
\* "queue".
C11_SolutionsViewIffSuccess ==
    \A r \in Runs :
        (lastOp.run = r /\ runs[r].kind = "primary" /\ runs[r].pc = "done")
        => /\ (view = "solutions" <=> runs[r].result = "success")
           /\ (runs[r].result = "failure" => view = "queue")
           /\ (runs[r].result = "success"
                 => (problemInfo.by = r /\ Emitted("SOLUTION_SUCCESS")))

\* the step settles run r of the given kind with a failure
SettlesFailed(r, kind) ==
    runs[r].kind = kind /\ InFlight(r) /\ runs'[r].pc = "done" /\ runs'[r].result = "failure"

\* C12: a primary run that fails changes no orchestrator state: when it
\* settles, the stored ProblemInfo, the view, hasDebugged and the debug
\* screenshot queue are what they were when the run started; and a
\* processScreenshots call that finds no screenshot changes none of them.
C12_FailedPrimaryRunChangesNothing ==
    [][/\ \A r \in Runs :
            SettlesFailed(r, "primary")
            => /\ problemInfo' = runs[r].before.problemInfo
               /\ view' = runs[r].before.view
               /\ hasDebugged' = runs[r].before.hasDebugged
               /\ extraScreenshotQueue' = runs[r].before.extraScreenshotQueue
       /\ lastOp'.name = "processScreenshots:no-screenshots"
            => UNCHANGED <<problemInfo, view, hasDebugged, extraScreenshotQueue>>]_vars

\* C13: no step of a debug run changes the view or the stored ProblemInfo;
\* a debug run that succeeds sends DEBUG_SUCCESS and sets hasDebugged to
\* true; one that fails sends DEBUG_ERROR and leaves hasDebugged as it was;
\* and the steps before settlement leave hasDebugged alone.
C13_DebugRunFrame ==
    [][\A r \in Runs :
          (lastOp'.run = r /\ runs'[r].kind = "debug")
          => /\ view' = view
             /\ problemInfo' = problemInfo
             /\ runs'[r].before.view \in {"solutions", "none"}
             /\ (runs'[r].pc = "done" /\ runs'[r].result = "success")
                  => (hasDebugged' = TRUE /\ "DEBUG_SUCCESS" \in Range(effects'))
             /\ (runs'[r].pc = "done" /\ runs'[r].result = "failure")
                  => (hasDebugged' = hasDebugged /\ "DEBUG_ERROR" \in Range(effects')
                        /\ "DEBUG_SUCCESS" \notin Range(effects'))
             /\ runs'[r].pc # "done" => hasDebugged' = hasDebugged]_vars

\* C13 witness: a debug run started in view "solutions" has just failed
\* while hasDebugged was false, and the view is still "solutions".
C13_Witness ==
    \E r \in Runs :
        /\ lastOp.run = r /\ runs[r].kind = "debug"
        /\ runs[r].pc = "done" /\ runs[r].result = "failure"
        /\ Emitted("DEBUG_ERROR")
        /\ view = "solutions" /\ hasDebugged = FALSE /\ problemInfo # NoInfo

\* the step just taken was a fatal error of a processScreenshots call: the
\* provider client is missing, or a run settled with a failure
FatalError ==
    \/ lastOp.name = "processScreenshots:no-client"
    \/ \E r \in Runs : lastOp.run = r /\ runs[r].pc = "done" /\ runs[r].result = "failure"

\* C14 (as stated): after any fatal error of a processScreenshots call
\* (missing provider client, failure of a primary run, failure of a debug
\* run, failure to load the screenshot data) the view is "queue".
C14_ViewQueueAfterAnyFatalError == FatalError => view = "queue"

\* C14 (amended): a primary run that fails, at whatever stage, ends with view
\* "queue"; a processScreenshots call that finds no provider client and a
\* debug run that fails leave the view as it was.
C14_ViewAfterFatalError ==
    [][/\ \A r \in Runs : SettlesFailed(r, "primary") => view' = "queue"
       /\ \A r \in Runs : SettlesFailed(r, "debug") => view' = view
       /\ lastOp'.name = "processScreenshots:no-client" => view' = view]_vars

\* C14 witness: processScreenshots found no provider client while the view
\* was "solutions", sent API_KEY_INVALID and the view is still "solutions".
C14_Witness ==
    /\ lastOp.name = "processScreenshots:no-client"
    /\ Emitted("API_KEY_INVALID")
    /\ view = "solutions"

\* C15: a processScreenshots call in view "queue" (provider client present)
\* that finds the queue empty, or none of its files on disk, sends
\* NO_SCREENSHOTS, issues no token, starts no run, makes no provider call and
\* leaves the view at "queue"; a primary run is started only from a
\* non-empty queue with at least one existing file.
C15_EmptyQueueStartsNothing ==
    [][/\ (lastOp'.name = "processScreenshots:no-screenshots" /\ view = "queue")
            => /\ "NO_SCREENSHOTS" \in Range(effects')
               /\ Range(effects') \cap {"net:extract", "net:synth", "net:debug"} = {}
               /\ UNCHANGED <<currentProcessingAbortController,
                              currentExtraProcessingAbortController, nextRun, runs, aborted>>
               /\ view' = "queue"
       /\ \A r \in Runs :
            (lastOp'.name = "processScreenshots:start-primary" /\ lastOp'.run = r)
            => /\ screenshotQueue # <<>>
               /\ runs'[r].paths # <<>>
               /\ Range(runs'[r].paths) \subseteq Range(screenshotQueue)]_vars

\* C15 witness: processScreenshots was called in view "queue" with an empty
\* queue and has sent NO_SCREENSHOTS; no token is held and no run exists.
C15_Witness ==
    /\ lastOp.name = "processScreenshots:no-screenshots"
    /\ view = "queue" /\ screenshotQueue = <<>>
    /\ Emitted("NO_SCREENSHOTS")
    /\ currentProcessingAbortController = NoToken
    /\ \A r \in Runs : runs[r].pc = "idle"

\* C16: within a primary run the synthesis call is issued only after the
\* run's extraction call has returned a parsed result and that result has
\* been stored: either in the very step that stores it (MCQ answering), or
\* from the point after it where the run awaits the language (coding); it is
\* issued at most once, and a run whose extraction fails issues none.
C16_SynthesisOnlyAfterExtraction ==
    [][\A r \in Runs :
          lastOp'.run = r
          => /\ "net:synth" \in Range(effects')
                  => \/ /\ runs[r].pc = "extract"
                        /\ problemInfo'.by = r
                        /\ \E i, j \in 1..Len(effects') :
                              /\ i < j
                              /\ effects'[i] = "call:setProblemInfo"
                              /\ effects'[j] = "net:synth"
                     \/ runs[r].pc = "languageSynth"
             /\ (runs'[r].pc = "languageSynth" /\ runs[r].pc # "languageSynth")
                  => /\ runs[r].pc = "extract"
                     /\ problemInfo'.by = r
                     /\ "call:setProblemInfo" \in Range(effects')
             /\ (runs[r].pc \in {"loading", "language", "extract"} /\ runs'[r].pc = "done"
                    /\ "call:setProblemInfo" \notin Range(effects'))
                  => "net:synth" \notin Range(effects')]_vars

\* C16 witness: a coding run whose extraction succeeded has just issued its
\* synthesis call.
C16_Witness ==
    \E r \in Runs :
        /\ lastOp.run = r /\ lastOp.name = "primary:synth-issue"
        /\ Emitted("net:synth")
        /\ runs[r].pc = "synth" /\ runs[r].synthKind = "coding"

\* position of path x in queue q (queued paths are distinct)
Pos(q, x) == CHOOSE k \in 1..Len(q) : q[k] = x

\* img holds exactly the paths of q that are in ok, once each, in q's order
IsSubsequenceOf(img, q, ok) ==
    /\ Range(img) = Range(q) \cap ok
    /\ Len(img) = Cardinality(Range(img))
    /\ \A i, j \in 1..Len(img) : i < j => Pos(q, img[i]) < Pos(q, img[j])

\* the files of run r's input that can be loaded: for a primary run the
\* files of the primary queue that exist and can be read; for a debug run
\* the readable files of the primary queue and the existing, readable files
\* of the debug queue
Loadable(run) ==
    IF run.kind = "primary"
      THEN run.onDisk \cap run.readable
      ELSE (Range(run.before.screenshotQueue) \cup run.onDisk) \cap run.readable

\* the queue(s) run r loads, as they were when the run started
InputQueue(run) ==
    IF run.kind = "primary"
      THEN run.before.screenshotQueue
      ELSE run.before.screenshotQueue \o run.before.extraScreenshotQueue

\* C17: when the image load of a run completes, the images handed to the
\* provider stage are exactly the loadable screenshots of the run's input
\* (primary queue; primary queue followed by debug queue for a debug run),
\* in queue order; files that are missing or unreadable are skipped, and the
\* run fails at this point if and only if no image remains.
C17_ImagesAreReadableQueueInOrder ==
    [][\A r \in Runs :
          (runs[r].pc = "loading" /\ runs'[r].pc # "loading")
          => /\ runs'[r].pc = "done" <=> Range(InputQueue(runs[r])) \cap Loadable(runs[r]) = {}
             /\ runs'[r].pc = "done"
                  => (runs'[r].result = "failure"
                        /\ lastOp'.error \in {MsgLoadFailed, MsgLoadFailedDebug})
             /\ runs'[r].pc # "done"
                  => IsSubsequenceOf(runs'[r].images, InputQueue(runs[r]), Loadable(runs[r]))]_vars

\* C17 witness: a primary run over a queue of three screenshots has loaded
\* the first and the third; the second was skipped.
C17_Witness ==
    \E r \in Runs :
        /\ lastOp.run = r /\ lastOp.name = "primary:loaded"
        /\ runs[r].before.screenshotQueue = <<"m1", "m2", "m3">>
        /\ runs[r].images = <<"m1", "m3">>

\* C18: for every provider a primary run in MCQ mode asks for MCQ
\* extraction, normalises the extracted question set
\* (validateAndFixMCQFormat) and then issues one MCQ answering call; in
\* coding mode it asks for problem extraction, normalises nothing and goes on
\* to one coding synthesis call.
C18_SameStagesForEveryProvider ==
    \A r \in Runs :
        (lastOp.run = r /\ runs[r].kind = "primary" /\ InFlight(r))
        => /\ (lastOp.name = "primary:extract-issue" /\ runs[r].mode = "mcq")
                => Emitted("prompt:mcq")
           /\ (lastOp.name = "primary:extract-issue" /\ runs[r].mode = "coding")
                => Emitted("prompt:coding")
           /\ (lastOp.name = "primary:extract-return" /\ runs[r].mode = "mcq")
                => /\ Emitted("call:validateAndFixMCQFormat")
                   /\ Emitted("net:synth")
                   /\ runs[r].synthKind = "mcq"
           /\ (lastOp.name = "primary:extract-return" /\ runs[r].mode = "coding")
                => /\ ~Emitted("call:validateAndFixMCQFormat")
                   /\ runs[r].synthKind = "coding"

\* C19: parsing never fails: whatever text a provider returns, the parser
\* ends with a structure (real data or the placeholder) and no failure
\* result is produced because the extraction or synthesis text could not be
\* parsed.
C19_ParsingNeverFails ==
    parseResult.stage # "none" => (parseResult.ok /\ parseResult.error = "none")

\* C20: an extraction text that is itself well-formed JSON is parsed by the
\* direct parse of the whole text: the result is the whole text, and no
\* fence extraction, brace extraction or other fallback is used.
C20_WellFormedJSONParsedDirectly ==
    (parseResult.stage = "extraction" /\ JSONParses(responseText))
    => /\ parseResult.ok
       /\ parseResult.strategy = "direct"
       /\ parseResult.value = responseText

\* the text holds a fenced block whose inner text is valid JSON
WrapsFencedJSON(t, i, j) ==
    /\ i < j
    /\ t[i] = "F" /\ t[j] = "F"
    /\ JSONParses(SubSeq(t, i + 1, j - 1))

\* C21: an extraction text that wraps valid JSON in a fenced code block, with
\* or without prose around the block, is parsed by the fenced-block strategy
\* and the result is the structure of the block's inner text, for each
\* provider.
C21_FencedJSONParsedAsInnerText ==
    \A i, j \in 1..Len(responseText) :
        (parseResult.stage = "extraction" /\ WrapsFencedJSON(responseText, i, j))
        => /\ parseResult.ok
           /\ parseResult.strategy \in {"fence", "stripped"}
           /\ parseResult.value = SubSeq(responseText, i + 1, j - 1)

\* "Time complexity: O(n log n) because we sort first."
SortSentence == <<"T", "O", "b", "w">>

\* the sentence stands at position i of the text, on a line of its own
SentenceAt(t, i) ==
    /\ i + 3 <= Len(t)
    /\ SubSeq(t, i, i + 3) = SortSentence
    /\ i > 1 => t[i - 1] = "n"
    /\ i + 3 < Len(t) => t[i + 4] = "n"

\* C22: when the solution text holds the sentence "Time complexity: O(n log n)
\* because we sort first." (anywhere, also as its last characters, and with
\* no other time complexity label), the returned time_complexity is that
\* statement, not rewritten and not the default.
C22_TimeComplexityKept ==
    \A i \in 1..Len(responseText) :
        (/\ parseResult.stage = "solution"
         /\ SentenceAt(responseText, i)
         /\ Positions(responseText, "T") = {i})
        => parseResult.value.time_complexity = <<"O", "b", "w">>

NoSeparator(c) == \A i \in 1..Len(c) : c[i] \notin {"d", "b"}

\* what C23 states of one returned complexity r, given the captured text c
ComplexityShape(c, r) ==
    /\ HasNotation(r)
    /\ (c # <<>> /\ HasNotation(c) /\ NoSeparator(c))
         => r = <<FirstNotation(c), "d">> \o WithoutNotation(c)
    /\ (c = <<>> \/ ~HasNotation(c)) => r[1] = "O(n)"

\* C23: the time_complexity and space_complexity of a successful coding
\* synthesis each contain a Big-O notation: a captured text with a notation
\* but no separator (dash or "because") is returned as "O(expr) - rest", and
\* where no notation was found the linear estimate O(n) is put in front
\* (or the default text is returned).
C23_ComplexityHasNotation ==
    parseResult.stage = "solution"
    => /\ ComplexityShape(ComplexityMatch(responseText, "T", TimeStop),
                          parseResult.value.time_complexity)
       /\ ComplexityShape(ComplexityMatch(responseText, "S", SpaceStop),
                          parseResult.value.space_complexity)

\* a solution whose time complexity was rewritten, whose space complexity
\* had no notation
C23_Witness ==
    /\ parseResult.stage = "solution"
    /\ LET c == ComplexityMatch(responseText, "T", TimeStop)
       IN  c # <<>> /\ HasNotation(c) /\ NoSeparator(c) /\ Len(c) >= 2
    /\ parseResult.value.space_complexity = DefaultSpaceComplexity

\* the positions of the text that the matches of a style cover, marker included
RECURSIVE MatchedSpans(_, _, _)
MatchedSpans(t, style, lastIndex) ==
    LET starts == {i \in lastIndex..Len(t) :
                      MarkerStyle(t[i]) = style /\ OptionCapture(t, style, i) # <<0, 0>>}
    IN  IF starts = {} THEN {}
        ELSE LET i == Min(starts)
                 c == OptionCapture(t, style, i)
             IN  (i..c[2]) \cup MatchedSpans(t, style, c[2] + 1)

\* the tokens of a text at the positions kept, newlines apart
RECURSIVE KeptWords(_, _, _)
KeptWords(t, removed, i) ==
    IF i > Len(t) THEN <<>>
    ELSE (IF i \in removed \/ t[i] = "n" THEN <<>> ELSE <<t[i]>>) \o KeptWords(t, removed, i + 1)

\* C27: option inference tries the marker styles in the order "A.", "a.",
\* "1.", "option X:"; the first style with a match supplies the options and
\* every span that style matched is removed from the returned question text.
C27_WinningStyleSpansRemoved ==
    (parseResult.stage = "options" /\ parseResult.ok /\ Matching(responseText) # {})
    => LET style == OptionStyles[Min(Matching(responseText))]
       IN  /\ parseResult.value.options = ExecAll(responseText, style, 1, <<>>)
           /\ KeptWords(parseResult.value.questionText, {}, 1)
                = KeptWords(responseText, MatchedSpans(responseText, style, 1), 1)

\* the text holds a marker "<Letter>." with a word after it
HasLetterOption(t) ==
    \E i \in 1..(Len(t) - 1) :
        MarkerStyle(t[i]) \in {"upper", "lower"} /\ t[i + 1] \in {"x", "y", "("}

\* C29: for a text with at least one "<Letter>. <text>" option, the keys of
\* the option map that extractOptionsFromText returns are among A, B, C, D.
C29_OptionKeysAmongABCD ==
    (parseResult.stage = "options" /\ parseResult.ok /\ HasLetterOption(responseText))
    => \A i \in 1..Len(parseResult.value.options) :
           parseResult.value.options[i][1] \in {"A", "B", "C", "D"}

\* options were taken from lower-case markers
C29_Witness ==
    /\ parseResult.stage = "options" /\ parseResult.ok
    /\ HasLetterOption(responseText)
    /\ Matching(responseText) # {} /\ Min(Matching(responseText)) = 2
    /\ Len(parseResult.value.options) >= 1

\* the key C24 states for an option key
StatedKey(k) == IF k \in {"1", "2", "3", "4"} THEN fromCharCode(k) ELSE toUpperCase(k)

\* the question handed to the normalizer had options of its own
HadOptions(i) ==
    /\ i <= Len(parsedJSON.questions)
    /\ parsedJSON.questions[i].has_options
    /\ parsedJSON.questions[i].options # <<>>

\* C24: key normalization turns the keys 1-4 into A-D, upper-cases every
\* lower-case letter and keeps every other key; each option value is found
\* under its renamed key, and no option is lost.
C24_OptionKeysNormalized ==
    (parseResult.stage = "normalized" /\ parseResult.ok)
    => \A i \in 1..Len(parseResult.value.questions) :
          HadOptions(i)
          => LET old == parsedJSON.questions[i].options
                 new == parseResult.value.questions[i].options
             IN  /\ Len(new) = Len(old)
                 /\ \A j \in 1..Len(old) :
                       /\ HasKey(new, StatedKey(old[j][1]))
                       /\ Get(new, StatedKey(old[j][1])) = old[j][2]

\* C25: normalization is idempotent: normalizing the result of a
\* normalization again, with the same raw text, returns that same result.
C25_NormalizationIdempotent ==
    (parseResult.stage = "normalized" /\ parseResult.ok)
    => validateAndFixMCQFormat([questions |-> parseResult.value.questions], responseText)
         = parseResult.value

\* the question had no options and none can be read from its text
NothingToExtract(question) ==
    /\ ~question.has_options \/ question.options = <<>>
    /\ question.has_text
         => (/\ ~extractOptionsFromText(question.question_text).raised
             /\ extractOptionsFromText(question.question_text).options = <<>>)

\* C28: normalization never raises, whatever the option texts hold and
\* also for a question without question_text; and options that were absent
\* and cannot be extracted stay an empty map.
C28_NormalizationNeverRaises ==
    parseResult.stage = "normalized"
    => /\ parseResult.ok
       /\ \A i \in 1..Len(parsedJSON.questions) :
             NothingToExtract(parsedJSON.questions[i])
             => parseResult.value.questions[i].options = <<>>

\* the question of the set at the index of an answer, if there is one
HasQuestion(i) == questionSet.present /\ i <= Len(questionSet.list)

\* C26: for the answer at index i with a question at index i in the set: an
\* absent question_text becomes the question's, absent options become the
\* question's; fields present on the answer are left unchanged; an answer
\* without a question at its index is left unchanged.
C26_BackfillOnlyAbsentFields ==
    parseResult.stage = "answers"
    => \A i \in 1..Len(parsedJSON.answers) :
          LET old == parsedJSON.answers[i]
              new == parseResult.value.answers[i]
          IN  IF HasQuestion(i)
                THEN /\ ~old.has_text => new.question_text = questionSet.list[i].question_text
                     /\ old.has_text => new.question_text = old.question_text
                     /\ (~old.has_options /\ questionSet.list[i].has_options)
                          => new.options = questionSet.list[i].options
                     /\ old.has_options => new.options = old.options
                ELSE new = old

\* C26 as the code has it: a question_text that is absent or empty becomes
\* the question's (empty when the question has none); options that are absent
\* become the question's when the question has options, an empty option map
\* counting as present; every other field and every answer without a
\* question at its index is left unchanged.
C26_BackfillAbsentOrEmptyText ==
    parseResult.stage = "answers"
    => \A i \in 1..Len(parsedJSON.answers) :
          LET old == parsedJSON.answers[i]
              new == parseResult.value.answers[i]
          IN  IF HasQuestion(i)
                THEN /\ (~old.has_text \/ old.question_text = <<>>)
                          => new.question_text = questionSet.list[i].question_text
                     /\ (old.has_text /\ old.question_text # <<>>)
                          => new.question_text = old.question_text
                     /\ (~old.has_options /\ questionSet.list[i].has_options)
                          => new.has_options /\ new.options = questionSet.list[i].options
                     /\ (old.has_options \/ ~questionSet.list[i].has_options)
                          => new.has_options = old.has_options /\ new.options = old.options
                ELSE new = old

\* an answer without text and options was filled from its question, next to
\* an answer that has no question at its index
C26_Witness ==
    /\ parseResult.stage = "answers"
    /\ Len(parsedJSON.answers) = 2 /\ questionSet.present /\ Len(questionSet.list) = 1
    /\ ~parsedJSON.answers[1].has_text /\ ~parsedJSON.answers[1].has_options
    /\ parseResult.value.answers[1].question_text = <<"y">>
    /\ parseResult.value.answers[1].options = <<<<"A", <<"y">>>>>>
    /\ parseResult.value.answers[2] = parsedJSON.answers[2]

----------------------------------------------------------------------------
(* A provider call rejected with HTTP 429                                   *)

\* line 890: the message of the status-429 branch of the outer catch
MsgOpenAIRateLimit == "OpenAI API rate limit exceeded or insufficient credits. Please try again later."

\* the messages of the source that name a rate limit (lines 890 and 790)
RateLimitMessages == {MsgOpenAIRateLimit, MsgClaudeRateLimit}

\* C30: when a provider call of a primary run was rejected with HTTP 429, the
\* run has failed with a rate-limit message as its error, that message was
\* sent to the UI with INITIAL_SOLUTION_ERROR, the view is "queue", and the
\* rejected call was not sent again by itself.
C30_RateLimitSurfacedWithoutRetry ==
    Emitted("net:rejected:429")
        => /\ lastOp.error \in RateLimitMessages
           /\ Emitted("INITIAL_SOLUTION_ERROR")
           /\ ~Emitted("API_KEY_INVALID")
           /\ view = "queue"
           /\ ~Emitted("net:retry")

----------------------------------------------------------------------------
(* Configuration and authentication failures                                *)

\* C31: a processScreenshots call that finds no usable client after the one
\* reinitialization, and a primary run whose provider call was rejected with
\* HTTP 401, end with API_KEY_INVALID sent, for each provider; the run has
\* failed and neither PROBLEM_EXTRACTED nor SOLUTION_SUCCESS is sent.
C31_KeyFailureSendsApiKeyInvalid ==
    /\ lastOp.name = "processScreenshots:no-client"
          => /\ Emitted("API_KEY_INVALID")
             /\ ~Emitted("PROBLEM_EXTRACTED")
             /\ ~Emitted("SOLUTION_SUCCESS")
    /\ Emitted("net:rejected:401")
          => /\ runs[lastOp.run].result = "failure"
             /\ Emitted("API_KEY_INVALID")
             /\ ~Emitted("PROBLEM_EXTRACTED")
             /\ ~Emitted("SOLUTION_SUCCESS")

\* the steps in which a provider call of a primary run has ended
CallReturned == lastOp.name \in {"primary:extract-return", "primary:synth-return"}

\* C32: the message that tells the user to switch providers is the error of
\* a primary run exactly when its provider call was rejected with HTTP 413;
\* no other way for the call to fail, an answer that cannot be parsed
\* included, gives that message.
C32_TooLargeOnlyForHTTP413 ==
    CallReturned => (lastOp.error = MsgClaudeTooMuch <=> Emitted("net:rejected:413"))

----------------------------------------------------------------------------
(* Provider handles and configuration changes                               *)

\* the providers whose handle is set
HandlesSet == {p \in Providers : ClientOf(p, openaiClient, geminiApiKey, anthropicClient) # NoKey}

\* C33: after the constructor and after every config-updated notification at
\* most one of openaiClient, geminiApiKey and anthropicClient is set; a handle
\* that is set belongs to the provider the configuration names and was built
\* with that configuration's key, and no handle is set when the configuration
\* holds no key.
C33_HandlesRebuiltFromConfig ==
    lastOp.name \in {"constructor", "config-updated"}
        => /\ Cardinality(HandlesSet) <= 1
           /\ \A p \in Providers :
                 ClientOf(p, openaiClient, geminiApiKey, anthropicClient)
                    = IF p = config.apiProvider THEN config.apiKey ELSE NoKey

\* a notification that named another provider while a run was using the old one
C33_Witness ==
    /\ lastOp.name = "config-updated"
    /\ HandlesSet = {config.apiProvider}
    /\ \E r \in Runs : runs[r].provider \notin {"none", config.apiProvider}

----------------------------------------------------------------------------
(* Terminal events of a run                                                 *)

\* how often the step just taken sent one of the events
Sent(events) == Cardinality({i \in 1..Len(effects) : effects[i] \in events})

\* the step just taken settled the run it belongs to
Settled(kind) ==
    /\ lastOp.run \in Runs
    /\ runs[lastOp.run].pc = "done"
    /\ runs[lastOp.run].kind = kind

\* C34: the step that settles a primary run sends exactly one of
\* SOLUTION_SUCCESS, INITIAL_SOLUTION_ERROR and API_KEY_INVALID, once; the
\* step that settles a debug run sends exactly one of DEBUG_SUCCESS and
\* DEBUG_ERROR, once.
C34_OneTerminalEventPerRun ==
    /\ Settled("primary")
          => Sent({"SOLUTION_SUCCESS", "INITIAL_SOLUTION_ERROR", "API_KEY_INVALID"}) = 1
    /\ Settled("debug") => Sent({"DEBUG_SUCCESS", "DEBUG_ERROR"}) = 1

----------------------------------------------------------------------------
(* The view and the stored problem                                          *)

\* C35: in every reachable state, view = "solutions" implies that a problem
\* info is stored.
C35_SolutionsViewHasProblemInfo == view = "solutions" => problemInfo # NoInfo

----------------------------------------------------------------------------
(* processing-status percentages                                            *)

IsStatus(e) == e \in {"status:20", "status:30", "status:40", "status:60", "status:100"}

Percentage(e) ==
    CASE e = "status:20" -> 20 [] e = "status:30" -> 30 [] e = "status:40" -> 40
      [] e = "status:60" -> 60 [] e = "status:100" -> 100

\* the percentages a step sent, in the order sent
Percentages(eff) == LET sent == SelectSeq(eff, IsStatus) IN [i \in 1..Len(sent) |-> Percentage(sent[i])]

\* the last percentage a run has sent when it waits at pc
ProgressAt(pc) ==
    CASE pc = "extract" -> 20
      [] pc = "languageSynth" -> 40
      [] pc \in {"synth", "debug"} -> 60
      [] OTHER -> 0

\* every percentage the step sends is above the one sent before it by the same run
PercentagesIncrease ==
    LET sent == Percentages(effects')
    IN  lastOp'.run \in Runs
            => \A i \in 1..Len(sent) :
                  sent[i] > (IF i = 1 THEN ProgressAt(runs[lastOp'.run].pc) ELSE sent[i - 1])

\* the extraction of a primary run has failed in the step just taken
ExtractionFailed ==
    /\ lastOp.name \in {"primary:extract-issue", "primary:extract-return"}
    /\ lastOp.error # "none"
    /\ ~Emitted("PROBLEM_EXTRACTED")

\* C36: within a run the percentages are sent in strictly increasing order;
\* 100 is sent only by a run that returns success; a primary run whose
\* extraction fails sends no percentage above 20.
C36_ProgressIncreasesTo100OnSuccess ==
    /\ [][PercentagesIncrease]_vars
    /\ [](Emitted("status:100") => runs[lastOp.run].result = "success")
    /\ [](ExtractionFailed => \A i \in 1..Len(Percentages(effects)) : Percentages(effects)[i] <= 20)

----------------------------------------------------------------------------
(* What a config-updated notification leaves alone                          *)

\* C37: a config-updated notification whose mode is the mode seen before
\* changes neither the stored problem info, nor the debug screenshot queue,
\* nor the view, nor hasDebugged; a notification with another mode that
\* arrives in view "queue" leaves the view at "queue".
C37_SameModeNotificationKeepsState ==
    [][lastOp'.name = "config-updated" /\ config' # config
          => /\ previousConfig.mode = config'.mode
                   => UNCHANGED <<problemInfo, extraScreenshotQueue, view, hasDebugged>>
             /\ (previousConfig.mode # config'.mode /\ view = "queue") => view' = "queue"]_vars

\* a notification with the same mode has arrived in view "solutions" with a
\* problem info stored and a debug screenshot queued
C37_Witness ==
    /\ lastOp.name = "config-updated"
    /\ view = "solutions"
    /\ problemInfo # NoInfo
    /\ extraScreenshotQueue # <<>>

----------------------------------------------------------------------------
(* parseMCQResponse on an answer text without a JSON object: the answers    *)
(* are read from the text (1137-1167).  The text is a sequence of tokens:   *)
(* "Q:" a heading "Question 1:" or "Q1:", "ca:" the words "correct answer   *)
(* is" or "correct answer:", "B" a word that begins with one of A-D, "b" a  *)
(* word that begins with one of a-d (as "because" does), "w" any other      *)
(* word, "n" a newline.  "ca:" is written in lower case, so it begins with  *)
(* "c".  explanation, analysis and key_concepts of an answer are left out.  *)

AnswerTokens == {"Q:", "ca:", "B", "b", "w", "n"}

AnswerTexts == UNION {[1..n -> AnswerTokens] : n \in 0..MaxAnswerTextLen}

\* content.split(/Question\s+\d+:|Q\d+:/gi): the texts between the headings
RECURSIVE SplitAtHeadings(_, _)
SplitAtHeadings(t, block) ==
    IF t = <<>> THEN <<block>>
    ELSE IF t[1] = "Q:" THEN <<block>> \o SplitAtHeadings(Tail(t), <<>>)
    ELSE SplitAtHeadings(Tail(t), Append(block, t[1]))

\* .filter(block => block.trim().length > 0) (1139)
questionBlocks(content) ==
    LET NotBlank(block) == \E i \in 1..Len(block) : block[i] # "n"
    IN  SelectSeq(SplitAtHeadings(content, <<>>), NotBlank)

\* ([A-D]) under the flag i: the first character of the word, as written
CapturedLetter(tok) == CASE tok = "B" -> "B" [] tok = "b" -> "b" [] tok = "ca:" -> "c"

\* where /correct\s+answer\s*(?:is|:)\s*([A-D])/i matches in the block (1143)
CorrectAnswerMatches(block) ==
    {i \in 1..Len(block) :
        /\ block[i] = "ca:"
        /\ SkipNewlines(block, i + 1) <= Len(block)
        /\ block[SkipNewlines(block, i + 1)] \in {"B", "b", "ca:"}}

\* correctAnswerMatch ? correctAnswerMatch[1] : "?" (1144)
CorrectAnswerAt(block, matches) ==
    IF matches = {} THEN "?"
    ELSE CapturedLetter(block[SkipNewlines(block, Min(matches) + 1)])

correctAnswer(block) == CorrectAnswerAt(block, CorrectAnswerMatches(block))

\* problemInfo.questions && problemInfo.questions[i] (1150, 1153)
HasQuestionAt(questions, i) == questions.present /\ i <= Len(questions.list)

\* answers.push({...}) for the block at index i, counted from 1 (1156-1164)
StructuredAnswer(block, questions, i) ==
    [question_number |-> i,
     question_text   |-> IF HasQuestionAt(questions, i) THEN questions.list[i].question_text
                         ELSE <<>>,
     options         |-> IF HasQuestionAt(questions, i) /\ questions.list[i].has_options
                           THEN questions.list[i].options ELSE <<>>,
     correct_answer  |-> correctAnswer(block)]

\* the loop at 1141-1165 over the blocks
StructuredAnswers(blocks, questions) ==
    [i \in 1..Len(blocks) |-> StructuredAnswer(blocks[i], questions, i)]

\* parseMCQResponse(content, problemInfo) (1112-1172), its result for a text
\* in which /\{[\s\S]*\}/ finds nothing
ParseStructuredText ==
    /\ parseResult.stage = "none"
    /\ ~BraceMatched(responseText)
    /\ parseResult' = Parsed("answers", "heuristic",
                             StructuredAnswers(questionBlocks(responseText), questionSet))
    /\ UNCHANGED <<responseText, parsedJSON, questionSet, noteVars>>
    /\ PipelineUnchanged

InitAnswers ==
    /\ InitMCQ
    /\ responseText \in AnswerTexts
    /\ parsedJSON = Undefined
    /\ questionSet \in {[present |-> FALSE, list |-> <<>>]}
         \cup {[present |-> TRUE, list |-> q] :
                  q \in UNION {[1..n -> SetQuestions] : n \in 0..MaxAnswers}}

NextAnswers == ParseStructuredText

SpecAnswers == InitAnswers /\ [][NextAnswers]_vars

\* the answers the structured-text parsing has produced
StructuredResult == parseResult.stage = "answers" /\ parseResult.strategy = "heuristic"

\* C38: every answer the structured-text parsing produces has correct_answer
\* among A, B, C, D and "?", question_number equal to its position counted
\* from 1, and the question_text and options of the extracted question at
\* that position, or empty ones when there is no such question.
C38_StructuredAnswersWellFormed ==
    StructuredResult
        => \A i \in 1..Len(parseResult.value) :
              LET answer == parseResult.value[i]
              IN  /\ answer.correct_answer \in {"A", "B", "C", "D", "?"}
                  /\ answer.question_number = i
                  /\ answer.question_text =
                        (IF HasQuestionAt(questionSet, i) THEN questionSet.list[i].question_text
                         ELSE <<>>)
                  /\ answer.options =
                        (IF HasQuestionAt(questionSet, i) THEN questionSet.list[i].options
                         ELSE <<>>)

----------------------------------------------------------------------------
(* The TextInput component (part_000) and the text-note store it shows.     *)
(* The store lives in the main process: it answers getTextInputs with its   *)
(* list and sends text-input-added and text-input-deleted to the window     *)
(* when a note is added or deleted.  The effect at 15-40 asks for the list  *)
(* and registers the two listeners.  The events reach the listeners in the  *)
(* order they were sent; the promise of getTextInputs is settled by a       *)
(* message of its own, and nothing in the component ties its arrival to     *)
(* that of the events.  ipc.inOrder records whether the reply has arrived   *)
(* at its place among the events.  The cleanup at 36-39 is left out: the    *)
(* component stays mounted.                                                 *)

MaxNotes == 3

NoteTexts == {"x", "y"}

\* useEffect(() => {...}, []) at mount: loadTextInputs() sends the call,
\* onTextInputAdded and onTextInputDeleted register the listeners (15-35)
Mount ==
    /\ ipc.request = "none"
    /\ ipc' = [ipc EXCEPT !.request = "sent"]
    /\ UNCHANGED <<textInputs, noteStore, noteCount>>
    /\ UNCHANGED <<responseText, parseResult, parsedJSON, questionSet>>
    /\ PipelineUnchanged

\* an event for the window; without listeners it reaches nobody
Notified(type, data) ==
    IF ipc.request = "none" THEN ipc
    ELSE [ipc EXCEPT !.events = Append(@, [type |-> type, data |-> data,
                                          early |-> ipc.request = "sent"])]

\* the store adds a note under a new id and sends text-input-added {id, text}
AddTextInput ==
    /\ noteCount < MaxNotes
    /\ \E text \in NoteTexts :
          LET note == [id |-> noteCount + 1, text |-> text]
          IN  /\ noteStore' = Append(noteStore, note)
              /\ ipc' = Notified("text-input-added", note)
    /\ noteCount' = noteCount + 1
    /\ UNCHANGED textInputs
    /\ UNCHANGED <<responseText, parseResult, parsedJSON, questionSet>>
    /\ PipelineUnchanged

\* the store deletes a note and sends text-input-deleted {id}
DeleteTextInput ==
    /\ \E i \in 1..Len(noteStore) :
          LET id == noteStore[i].id
              Kept(note) == note.id # id
          IN  /\ noteStore' = SelectSeq(noteStore, Kept)
              /\ ipc' = Notified("text-input-deleted", [id |-> id])
    /\ UNCHANGED <<textInputs, noteCount>>
    /\ UNCHANGED <<responseText, parseResult, parsedJSON, questionSet>>
    /\ PipelineUnchanged

\* the store answers getTextInputs with the list it holds at that moment
GetTextInputs ==
    /\ ipc.request = "sent"
    /\ ipc' = [ipc EXCEPT !.request = "answered", !.reply = noteStore]
    /\ UNCHANGED <<textInputs, noteStore, noteCount>>
    /\ UNCHANGED <<responseText, parseResult, parsedJSON, questionSet>>
    /\ PipelineUnchanged

\* const inputs = await window.electronAPI.getTextInputs();
\* setTextInputs(inputs) (18-19)
LoadTextInputs ==
    /\ ipc.request = "answered"
    /\ textInputs' = ipc.reply
    /\ ipc' = [ipc EXCEPT !.request = "delivered",
                          !.inOrder = @ /\ \A i \in 1..Len(ipc.events) : ~ipc.events[i].early]
    /\ UNCHANGED <<noteStore, noteCount>>
    /\ UNCHANGED <<responseText, parseResult, parsedJSON, questionSet>>
    /\ PipelineUnchanged

\* setTextInputs(prev => [...prev, data]) (29)
TextInputAdded(prev, data) == Append(prev, data)

\* setTextInputs(prev => prev.filter(input => input.id !== data.id)) (33)
TextInputDeleted(prev, data) ==
    LET Other(input) == input.id # data.id
    IN  SelectSeq(prev, Other)

\* the listeners at 28-34, called with the oldest event in flight
OnTextInputEvent ==
    /\ ipc.events # <<>>
    /\ LET event == Head(ipc.events)
       IN  /\ textInputs' = IF event.type = "text-input-added"
                              THEN TextInputAdded(textInputs, event.data)
                              ELSE TextInputDeleted(textInputs, event.data)
           /\ ipc' = [ipc EXCEPT !.events = Tail(@),
                                 !.inOrder = @ /\ (event.early \/ ipc.request = "delivered")]
    /\ UNCHANGED <<noteStore, noteCount>>
    /\ UNCHANGED <<responseText, parseResult, parsedJSON, questionSet>>
    /\ PipelineUnchanged

NextNotes ==
    \/ Mount
    \/ AddTextInput
    \/ DeleteTextInput
    \/ GetTextInputs
    \/ LoadTextInputs
    \/ OnTextInputEvent

SpecNotes == Init /\ [][NextNotes]_vars

\* the reply and every event sent so far have been delivered
AllDelivered == ipc.request = "delivered" /\ ipc.events = <<>>

\* C39: whatever the order in which the getTextInputs reply and the
\* text-input-added and text-input-deleted events arrive, once the reply and
\* all events have been delivered the list the TextInput component holds
\* equals the list of the store.
C39_TextInputsEqualStore == AllDelivered => textInputs = noteStore

\* With the reply delivered at its place among the events (after those sent
\* before the store answered, before those sent after) the two lists agree.
TextInputsEqualStoreInOrder == (AllDelivered /\ ipc.inOrder) => textInputs = noteStore

====
